---- MODULE Spec2Model ----
(***************************************************************************)
(* The keyword/context retrieval engine of the "Ask Andrew" apps           *)
(* (src/ask-andrew/script.js; the same code is repeated in                 *)
(* src/computing-history/computing-local/app.js): loadIndex builds the     *)
(* keyword map, performSearch matches the n-grams of a question against    *)
(* it, searchContext assembles the context bundle.                         *)
(*                                                                         *)
(* Strings the code takes apart character by character (questions and      *)
(* keywords) are sequences of one-character strings.  Strings the code     *)
(* only compares or concatenates (category names, links, titles, contents, *)
(* document ids) are TLA+ strings.                                         *)
(***************************************************************************)
EXTENDS Integers, Sequences, FiniteSets, TLC

VARIABLES
    indexJson,      \* the document served as index.json
    indexData,      \* this.indexData: null, or the parsed index.json
    keywordMap,     \* this.keywordMap: undefined, or keyword -> entry
    pc,             \* "loading", "failed", "idle" or "returned"
    userQuestion,   \* the argument of the call that has just returned
    searchResult,   \* what performSearch returned to that call
    contextResult,  \* what searchContext returned to that call
    searchStatus,   \* this.elements.searchStatus.textContent
    webGPUSupported,     \* whether CreateMLCEngine succeeds in this browser
    engine,              \* this.engine: null, or the engine
    webGPUAvailable,     \* this.webGPUAvailable
    simpleMode,          \* this.simpleMode
    isGenerating,        \* this.isGenerating
    stopRequested,       \* this.stopRequested
    conversationHistory, \* this.conversationHistory
    chatMessages,        \* the children of this.elements.chatMessages
    generation,          \* the generateResponse call waiting on the engine
    typing,              \* the animateTyping calls in progress
    statusTimeouts,      \* the pending timeouts that clear the search status
    foundry              \* the Foundry app: this.config, this.isConfigured, localStorage, ...

\* the chat: what sendMessage and the other event handlers work on
chatVars == <<webGPUSupported, foundry, engine, webGPUAvailable, simpleMode,
              isGenerating, stopRequested, conversationHistory, chatMessages,
              generation, typing, statusTimeouts>>

vars == <<indexJson, indexData, keywordMap, pc, userQuestion, searchResult,
          contextResult, searchStatus, webGPUSupported, foundry, engine,
          webGPUAvailable, simpleMode, isGenerating, stopRequested,
          conversationHistory, chatMessages, generation, typing,
          statusTimeouts>>

(***************************************************************************)
(* JavaScript values                                                       *)
(***************************************************************************)
Null == "null"
Undefined == "undefined"
None == "none"          \* no call has returned: there is no value to look at

(***************************************************************************)
(* String primitives                                                       *)
(***************************************************************************)
LowerLetters ==
    <<"a", "b", "c", "d", "e", "f", "g", "h", "i", "j", "k", "l", "m",
      "n", "o", "p", "q", "r", "s", "t", "u", "v", "w", "x", "y", "z">>

UpperLetters ==
    <<"A", "B", "C", "D", "E", "F", "G", "H", "I", "J", "K", "L", "M",
      "N", "O", "P", "Q", "R", "S", "T", "U", "V", "W", "X", "Y", "Z">>

DigitChars == {"0", "1", "2", "3", "4", "5", "6", "7", "8", "9"}

\* the characters \s matches and trim() strips, among those the model uses
WhitespaceChars == {" ", "\t", "\n"}

Range(s) == {s[i] : i \in DOMAIN s}

\* String.prototype.toLowerCase
toLowerCase(s) ==
    [i \in DOMAIN s |->
        IF \E j \in DOMAIN UpperLetters : UpperLetters[j] = s[i]
        THEN LowerLetters[CHOOSE j \in DOMAIN UpperLetters : UpperLetters[j] = s[i]]
        ELSE s[i]]

RECURSIVE trimStart(_)
trimStart(s) ==
    IF s # <<>> /\ Head(s) \in WhitespaceChars THEN trimStart(Tail(s)) ELSE s

RECURSIVE trimEnd(_)
trimEnd(s) ==
    IF s # <<>> /\ s[Len(s)] \in WhitespaceChars
    THEN trimEnd(SubSeq(s, 1, Len(s) - 1))
    ELSE s

\* String.prototype.trim
trim(s) == trimEnd(trimStart(s))

\* the question kept with its punctuation
replaceNonAlphanumeric_keep(s) == s

\* s.replace(/[^a-z0-9\s]/g, ' ')
replaceNonAlphanumeric(s) ==
    [i \in DOMAIN s |->
        IF s[i] \in Range(LowerLetters) \cup DigitChars \cup WhitespaceChars
        THEN s[i]
        ELSE " "]

\* s.replace(/\s+/g, ' ')
RECURSIVE collapseWhitespace(_)
collapseWhitespace(s) ==
    IF s = <<>> THEN <<>>
    ELSE IF Head(s) \in WhitespaceChars
         THEN <<" ">> \o collapseWhitespace(trimStart(s))
         ELSE <<Head(s)>> \o collapseWhitespace(Tail(s))

\* s.split(' '): the pieces between the single spaces; ''.split(' ') is ['']
RECURSIVE split(_)
split(s) ==
    IF \E i \in DOMAIN s : s[i] = " "
    THEN LET i == CHOOSE k \in DOMAIN s :
                      s[k] = " " /\ \A j \in 1..(k - 1) : s[j] # " "
         IN  <<SubSeq(s, 1, i - 1)>> \o split(SubSeq(s, i + 1, Len(s)))
    ELSE <<s>>

\* parts.join(' ')
RECURSIVE join(_)
join(parts) ==
    IF parts = <<>> THEN <<>>
    ELSE IF Len(parts) = 1 THEN parts[1]
         ELSE parts[1] \o <<" ">> \o join(Tail(parts))

\* haystack.includes(needle)
includes(haystack, needle) ==
    \E i \in 0..(Len(haystack) - Len(needle)) :
        SubSeq(haystack, i + 1, i + Len(needle)) = needle

\* an ordered collection without duplicates (a JavaScript Set, or [...new Set(a)])
SetAdd(seq, x) == IF x \in Range(seq) THEN seq ELSE Append(seq, x)

RECURSIVE Dedup(_)
Dedup(seq) ==
    IF seq = <<>> THEN <<>>
    ELSE SetAdd(Dedup(SubSeq(seq, 1, Len(seq) - 1)), seq[Len(seq)])

(***************************************************************************)
(* loadIndex: the flat lookup map keyword -> {document, category, link}    *)
(***************************************************************************)
EmptyMap == [k \in {} |-> Null]

\* a set that leaves an existing entry alone: the first writer wins
MapSet_keepFirst(map, key, value) ==
    [k \in (DOMAIN map) \cup {key} |-> IF k \in DOMAIN map THEN map[k] ELSE value]

\* Map.prototype.set
MapSet(map, key, value) ==
    [k \in (DOMAIN map) \cup {key} |-> IF k = key THEN value ELSE map[k]]

\* keyword.toLowerCase() without the trim
normalizeKeyword_noTrim(keyword) == toLowerCase(keyword)

\* keyword.toLowerCase().trim()
normalizeKeyword(keyword) == trim(toLowerCase(keyword))

\* doc.keywords.forEach(keyword => ...), from keyword i on
RECURSIVE addKeywords(_, _, _, _)
addKeywords(map, category, doc, i) ==
    IF i > Len(doc.keywords) THEN map
    ELSE LET normalizedKeyword == normalizeKeyword(doc.keywords[i])
             entry == [document |-> doc,
                       category |-> category.category,
                       link     |-> category.link]
         IN  addKeywords(
                 IF normalizedKeyword # <<>>
                 THEN MapSet(map, normalizedKeyword, entry)
                 ELSE map,
                 category, doc, i + 1)

\* category.documents.forEach(doc => ...), from document i on
RECURSIVE addDocuments(_, _, _)
addDocuments(map, category, i) ==
    IF i > Len(category.documents) THEN map
    ELSE addDocuments(addKeywords(map, category, category.documents[i], 1),
                      category, i + 1)

\* this.indexData.forEach(category => ...), from category i on
RECURSIVE addCategories(_, _, _)
addCategories(map, data, i) ==
    IF i > Len(data) THEN map
    ELSE addCategories(addDocuments(map, data[i], 1), data, i + 1)

\* the map loadIndex leaves in this.keywordMap
buildKeywordMap(data) == addCategories(EmptyMap, data, 1)

(***************************************************************************)
(* performSearch                                                           *)
(***************************************************************************)
stopWords ==
    << <<"w", "h", "a", "t">>, <<"i", "s">>, <<"a", "r", "e">>,
       <<"t", "h", "e">>, <<"a">>, <<"a", "n">>, <<"h", "o", "w">>,
       <<"d", "o", "e", "s">>, <<"d", "o">>, <<"c", "a", "n">>,
       <<"a", "b", "o", "u", "t">>, <<"t", "e", "l", "l">>, <<"m", "e">>,
       <<"e", "x", "p", "l", "a", "i", "n">>,
       <<"d", "e", "s", "c", "r", "i", "b", "e">>,
       <<"s", "h", "o", "w">>, <<"g", "i", "v", "e">> >>

normalizeQuestion(question) ==
    LET lowerQuestion == trim(toLowerCase(question))
    IN  trim(collapseWhitespace(replaceNonAlphanumeric(lowerQuestion)))

\* the windows of one and two words only
windows_noTriples(words, n) ==
    [i \in 1..(IF Len(words) >= n /\ n < 3 THEN Len(words) - n + 1 ELSE 0) |->
        [text |-> join(SubSeq(words, i, i + n - 1)), length |-> n]]

\* the windows but the last one: the loop stopping at i < words.length - n
windows_dropLast(words, n) ==
    [i \in 1..(IF Len(words) > n THEN Len(words) - n ELSE 0) |->
        [text |-> join(SubSeq(words, i, i + n - 1)), length |-> n]]

\* the windows of n consecutive words, left to right
windows(words, n) ==
    [i \in 1..(IF Len(words) >= n THEN Len(words) - n + 1 ELSE 0) |->
        [text |-> join(SubSeq(words, i, i + n - 1)), length |-> n]]

\* every single word taken as a candidate
unigrams_noFilter(words) ==
    [i \in DOMAIN words |-> [text |-> words[i], length |-> 1]]

unigrams(words) ==
    LET kept == SelectSeq(words,
                    LAMBDA word : Len(word) >= 2 /\ word \notin Range(stopWords))
    IN  [i \in DOMAIN kept |-> [text |-> kept[i], length |-> 1]]

\* the n-grams collected single words first
extractNGrams_unigramsFirst(words) ==
    unigrams(words) \o windows(words, 2) \o windows(words, 3)

\* the n-grams without the single words
extractNGrams_noUnigrams(words) == windows(words, 3) \o windows(words, 2)

extractNGrams(words) == windows(words, 3) \o windows(words, 2) \o unigrams(words)

\* the bucket looked for in the last place only: a document hit again after
\* another one gets a second bucket
bucketOf_lastOnly(documentMatches, docId) ==
    IF documentMatches # <<>>
          /\ documentMatches[Len(documentMatches)].document.id = docId
    THEN Len(documentMatches)
    ELSE 0

\* every hit put into the first bucket, whichever document it belongs to
bucketOf_firstBucket(documentMatches, docId) ==
    IF documentMatches # <<>> THEN 1 ELSE 0

\* position of the bucket of document docId in documentMatches, 0 if none
bucketOf(documentMatches, docId) ==
    IF \E i \in DOMAIN documentMatches : documentMatches[i].document.id = docId
    THEN CHOOSE i \in DOMAIN documentMatches : documentMatches[i].document.id = docId
    ELSE 0

\* nGrams.forEach(ngram => ...), from n-gram i on; acc holds matchedKeywords
\* (a Set) and documentMatches (a Map keyed by document id, in insertion order)
RECURSIVE matchNGrams(_, _, _, _)
matchNGrams(map, nGrams, i, acc) ==
    IF i > Len(nGrams) THEN acc
    ELSE IF nGrams[i].text \notin DOMAIN map
         THEN matchNGrams(map, nGrams, i + 1, acc)
         ELSE LET match == map[nGrams[i].text]
                  docId == match.document.id
                  created ==
                      IF bucketOf(acc.documentMatches, docId) = 0
                      THEN Append(acc.documentMatches,
                                  [document |-> match.document,
                                   category |-> match.category,
                                   link     |-> match.link,
                                   matchedKeywords |-> <<>>])
                      ELSE acc.documentMatches
                  b == bucketOf(created, docId)
              IN  matchNGrams(map, nGrams, i + 1,
                      [matchedKeywords |->
                           SetAdd(acc.matchedKeywords, nGrams[i].text),
                       documentMatches |->
                           [created EXCEPT ![b].matchedKeywords =
                               Append(@, nGrams[i].text)]])

\* a.split(' ').length
wordCount(keyword) == Len(split(keyword))

\* Array.prototype.sort with (a, b) => bWords - aWords: a stable sort,
\* longer phrases first
RECURSIVE sortByWordCount(_)
sortByWordCount(keywords) ==
    IF keywords = <<>> THEN <<>>
    ELSE LET last == keywords[Len(keywords)]
             rest == sortByWordCount(SubSeq(keywords, 1, Len(keywords) - 1))
             \* last goes behind every element that does not sort after it
             before == SelectSeq(rest, LAMBDA k : wordCount(k) >= wordCount(last))
             after  == SelectSeq(rest, LAMBDA k : wordCount(k) < wordCount(last))
         IN  before \o <<last>> \o after

\* filterSubsets with the containment test the wrong way round
RECURSIVE filterSubsets_swapped(_, _, _)
filterSubsets_swapped(sortedKeywords, i, filteredKeywords) ==
    IF i > Len(sortedKeywords) THEN filteredKeywords
    ELSE LET keyword == sortedKeywords[i]
             isSubset == \E j \in DOMAIN filteredKeywords :
                             /\ filteredKeywords[j] # keyword
                             /\ includes(keyword, filteredKeywords[j])
         IN  filterSubsets_swapped(sortedKeywords, i + 1,
                 IF isSubset THEN filteredKeywords
                 ELSE SetAdd(filteredKeywords, keyword))

\* sortedKeywords.forEach(keyword => ...), from keyword i on
RECURSIVE filterSubsets(_, _, _)
filterSubsets(sortedKeywords, i, filteredKeywords) ==
    IF i > Len(sortedKeywords) THEN filteredKeywords
    ELSE LET keyword == sortedKeywords[i]
             isSubset == \E j \in DOMAIN filteredKeywords :
                             /\ filteredKeywords[j] # keyword
                             /\ includes(filteredKeywords[j], keyword)
         IN  filterSubsets(sortedKeywords, i + 1,
                 IF isSubset THEN filteredKeywords
                 ELSE SetAdd(filteredKeywords, keyword))

\* the buckets handed back as they were collected, filtering forgotten
rebuildMatches_unfiltered(documentMatches, filteredKeywords, i) ==
    documentMatches

\* documentMatches.forEach((match, docId) => ...), from bucket i on
RECURSIVE rebuildMatches(_, _, _)
rebuildMatches(documentMatches, filteredKeywords, i) ==
    IF i > Len(documentMatches) THEN <<>>
    ELSE LET match == documentMatches[i]
             validKeywords == SelectSeq(match.matchedKeywords,
                                  LAMBDA kw : kw \in Range(filteredKeywords))
         IN  (IF Len(validKeywords) > 0
              THEN <<[match EXCEPT !.matchedKeywords = validKeywords]>>
              ELSE <<>>)
             \o rebuildMatches(documentMatches, filteredKeywords, i + 1)

performSearch(map, question) ==
    LET words == split(normalizeQuestion(question))
        nGrams == extractNGrams(words)
        matched == matchNGrams(map, nGrams, 1,
                       [matchedKeywords |-> <<>>, documentMatches |-> <<>>])
        sortedKeywords == sortByWordCount(matched.matchedKeywords)
        filteredKeywords == filterSubsets(sortedKeywords, 1, <<>>)
    IN  [matches |-> rebuildMatches(matched.documentMatches, filteredKeywords, 1),
         matchedKeywords |-> filteredKeywords]

(***************************************************************************)
(* searchContext                                                           *)
(***************************************************************************)
FallbackCategory == "AI Concepts"

\* the first category taken as the fallback, whatever its name
findFallback_anyCategory(data) == IF data # <<>> THEN 1 ELSE 0

\* this.indexData.find(cat => cat.category === 'AI Concepts'): 0 if none
findFallback(data) ==
    IF \E i \in DOMAIN data : data[i].category = FallbackCategory
    THEN CHOOSE i \in DOMAIN data :
             /\ data[i].category = FallbackCategory
             /\ \A j \in 1..(i - 1) : data[j].category # FallbackCategory
    ELSE 0

\* strings.join(separator), on TLA+ strings
RECURSIVE joinStrings(_, _)
joinStrings(strings, separator) ==
    IF strings = <<>> THEN ""
    ELSE IF Len(strings) = 1 THEN strings[1]
         ELSE strings[1] \o separator \o joinStrings(Tail(strings), separator)

\* a block headed by the category alone, as on the fallback path
contextPart_noTitle(match) ==
    "[" \o match.category \o "]\n" \o match.document.content

contextPart(match) ==
    "[" \o match.category \o " - " \o match.document.title \o "]\n"
        \o match.document.content

\* searchContext without the fallback document: no match, empty bundle
assembleContext_noFallback(data, matches) ==
    IF Len(matches) = 0
    THEN [context |-> Null, categories |-> <<>>, links |-> <<>>,
          documents |-> <<>>]
    ELSE [context    |-> joinStrings([i \in DOMAIN matches |->
                                          contextPart(matches[i])], "\n\n"),
          categories |-> Dedup([i \in DOMAIN matches |-> matches[i].category]),
          links      |-> Dedup([i \in DOMAIN matches |-> matches[i].link]),
          documents  |-> [i \in DOMAIN matches |-> matches[i].document]]

\* what searchContext returns, given what performSearch returned
assembleContext(data, matches) ==
    IF Len(matches) = 0
    THEN LET f == findFallback(data)
         IN  IF f # 0 /\ Len(data[f].documents) > 0
             THEN [context    |-> "[" \o data[f].category \o "]\n"
                                      \o data[f].documents[1].content,
                   categories |-> <<data[f].category>>,
                   links      |-> <<data[f].link>>,
                   documents  |-> <<data[f].documents[1]>>]
             ELSE [context |-> Null, categories |-> <<>>, links |-> <<>>,
                   documents |-> <<>>]
    ELSE [context    |-> joinStrings([i \in DOMAIN matches |->
                                          contextPart(matches[i])], "\n\n"),
          categories |-> Dedup([i \in DOMAIN matches |-> matches[i].category]),
          links      |-> Dedup([i \in DOMAIN matches |-> matches[i].link]),
          documents  |-> [i \in DOMAIN matches |-> matches[i].document]]

\* generateResponse: the learn-more links, each labelled with
\* categories[Math.min(index, categories.length - 1)]
learnMoreLinks(links, categories) ==
    [i \in DOMAIN links |->
        [href  |-> links[i],
         label |-> categories[IF i < Len(categories) THEN i ELSE Len(categories)]]]

\* the text searchContext leaves in the search status element, after its
\* leading icon
statusText(matches) ==
    IF Len(matches) = 0 THEN "No specific context found"
    ELSE "Found context in: "
             \o joinStrings(Dedup([i \in DOMAIN matches |-> matches[i].category]),
                            ", ")

(***************************************************************************)
(* Inputs                                                                  *)
(***************************************************************************)
MaxWords == 3       \* pieces typed into one question

wAb  == <<"a", "b">>
wAbc == <<"a", "b", "c">>
wCd  == <<"c", "d">>
wIs  == <<"i", "s">>

\* what a question is typed from: three words, one inside the other, and a
\* stop word in capitals and punctuation
Pieces == {wAb, wAbc, wCd, <<"?", "I", "s", "!">>}

Questions ==
    {join(ps) : ps \in UNION {[1..n -> Pieces] : n \in 0..MaxWords}}

\* the keyword lists an author may give a document: phrases of one to three
\* words that contain one another, a keyword to be trimmed and lowercased,
\* a blank one, a stop word, one with a hyphen
KeywordLists ==
    { <<wAb, join(<<wCd, wAb, wAbc>>)>>,
      <<wAbc, join(<<wAb, wAbc>>), wIs, join(<<wIs, wAb>>),
        <<"a", "b", "-", "a", "b", "c">> >>,
      << <<" ", "A", "B", " ">>, <<" ", " ">>, wCd, join(<<wAbc, wCd>>)>> }

Doc(n, keywords) ==
    [id |-> "d" \o n, title |-> "Title " \o n, content |-> "Content " \o n,
     keywords |-> keywords]

Category(name, link, documents) ==
    [category |-> name, link |-> link, documents |-> documents]

\* the shapes of index.json: where the three documents sit
Layout(l, d1, d2, d3) ==
    CASE l = 1 -> <<Category("AI Concepts", "linkA", <<d1, d2>>),
                    Category("NLP", "linkB", <<d3>>)>>
      [] l = 2 -> <<Category("NLP", "linkA", <<d1>>),
                    Category("AI Concepts", "linkA", <<d2>>),
                    Category("Vision", "linkB", <<d3>>)>>
      [] l = 3 -> <<Category("NLP", "linkA", <<d1, d2, d3>>),
                    Category("AI Concepts", "linkB", <<>>)>>
      [] l = 4 -> <<Category("NLP", "linkA", <<d1>>),
                    Category("Vision", "linkB", <<d2, d3>>)>>

Layouts == 1..4

Indexes ==
    {<<>>} \cup
    {Layout(l, Doc("1", k1), Doc("2", k2), Doc("3", k3)) :
        l \in Layouts, k1 \in KeywordLists, k2 \in KeywordLists,
        k3 \in KeywordLists}

\* the phrases of the subset-filtering example
wLarge    == <<"l", "a", "r", "g", "e">>
wLanguage == <<"l", "a", "n", "g", "u", "a", "g", "e">>
wModel    == <<"m", "o", "d", "e", "l">>
wModels   == <<"m", "o", "d", "e", "l", "s">>

LargeLanguageModel  == join(<<wLarge, wLanguage, wModel>>)
LargeLanguageModels == join(<<wLarge, wLanguage, wModels>>)
LanguageModel       == join(<<wLanguage, wModel>>)

PhrasePieces == {LargeLanguageModel, LargeLanguageModels, wLanguage, wModel}

PhraseQuestions ==
    {join(ps) : ps \in UNION {[1..n -> PhrasePieces] : n \in 0..MaxWords}}

PhraseKeywordLists ==
    { <<LargeLanguageModel, LanguageModel, wLanguage>>,
      <<LargeLanguageModels>>,
      <<wModel, <<" ", "L", "a", "n", "g", "u", "a", "g", "e", " ", "M", "o", "d", "e", "l", " ">>>> }

PhraseIndexes ==
    {Layout(1, Doc("1", k1), Doc("2", k2), Doc("3", k3)) :
        k1 \in PhraseKeywordLists, k2 \in PhraseKeywordLists,
        k3 \in PhraseKeywordLists}

\* the Knowledge Index and the questions of the concrete scenarios
kwNeuralNetwork ==
    <<"n", "e", "u", "r", "a", "l", " ", "n", "e", "t", "w", "o", "r", "k">>

kwNeuralNetworks ==
    <<"n", "e", "u", "r", "a", "l", " ", "n", "e", "t", "w", "o", "r", "k",
      "s">>

kwDeepLearning ==
    <<"d", "e", "e", "p", " ", "l", "e", "a", "r", "n", "i", "n", "g">>

kwTokenization ==
    <<"t", "o", "k", "e", "n", "i", "z", "a", "t", "i", "o", "n">>

kwToken ==
    <<"t", "o", "k", "e", "n">>

ScenarioIndex ==
    <<Category("AI Concepts", "https://example.com/ai",
          <<[id |-> "d1", title |-> "Neural Networks",
             content |-> "Neural networks are...",
             keywords |-> <<kwNeuralNetwork, kwNeuralNetworks, kwDeepLearning>>]>>),
      Category("NLP", "https://example.com/nlp",
          <<[id |-> "d2", title |-> "Tokenization",
             content |-> "Tokenization splits...",
             keywords |-> <<kwTokenization, kwToken>>]>>)>>

WhatIsA ==
    <<"W", "h", "a", "t", " ", "i", "s", " ", "a">>

NeuralNetworkQ ==
    <<"n", "e", "u", "r", "a", "l", " ", "n", "e", "t", "w", "o", "r", "k",
      "?">>

TellMeAboutTokenization ==
    <<"T", "e", "l", "l", " ", "m", "e", " ", "a", "b", "o", "u", "t", " ",
      "t", "o", "k", "e", "n", "i", "z", "a", "t", "i", "o", "n">>

AndTokens ==
    <<"a", "n", "d", " ", "t", "o", "k", "e", "n", "s">>

RandomNonsense ==
    <<"a", "s", "d", "k", "j", "a", "s", "d", "j", " ", "r", "a", "n", "d",
      "o", "m", " ", "n", "o", "n", "s", "e", "n", "s", "e">>

Punctuation ==
    <<"?", "!">>

\* what a scenario question is typed from; a blank piece and a piece of
\* punctuation make the questions without a word
ScenarioPieces ==
    {WhatIsA, NeuralNetworkQ, TellMeAboutTokenization, AndTokens, kwToken,
     RandomNonsense, Punctuation, <<" ">>}

ScenarioQuestions ==
    {join(ps) : ps \in UNION {[1..n -> ScenarioPieces] : n \in 0..MaxWords}}

\* keywords and questions around the stop words and one-letter words
wWhat == <<"w", "h", "a", "t">>
wA    == <<"a">>
wX    == <<"x">>

\* every stop word authored as a keyword, and a one-letter keyword
StopWordKeywords == stopWords \o <<wX>>

\* phrases of two and three words holding stop words and one-letter words
StopPhraseKeywords ==
    <<join(<<wWhat, wIs>>), join(<<wIs, wA>>), join(<<wA, wX>>),
      join(<<wWhat, wIs, wA>>), join(<<wIs, wA, wX>>), join(<<wX, wAb>>)>>

StopWordIndexes ==
    {Layout(l, Doc("1", StopWordKeywords), Doc("2", StopPhraseKeywords),
            Doc("3", <<wAb>>)) : l \in Layouts}

StopWordPieces == {wWhat, wIs, wA, wX, wAb}

StopWordQuestions ==
    {join(ps) : ps \in UNION {[1..n -> StopWordPieces] : n \in 0..MaxWords}}
        \cup Range(stopWords)

\* keywords no n-gram can spell: a hyphen, an apostrophe in capitals, two
\* spaces, a tab, four words
kwHyphen     == <<"a", "b", "-", "a", "b", "c">>
kwApostrophe == <<"I", "t", "'", "s">>
kwTwoSpaces  == <<"a", "b", " ", " ", "c", "d">>
kwTab        == <<"a", "b", "\t", "a", "b">>
kwFourWords  == join(<<wAb, wAbc, wCd, wAb>>)

UnreachableKeywords ==
    <<kwHyphen, kwApostrophe, kwTwoSpaces, kwTab, kwFourWords>>

\* the documents of the unreachable keywords, of the phrases their words
\* make, and of one of these words
UnreachableIndexes ==
    {Layout(l, Doc("1", UnreachableKeywords),
            Doc("2", <<join(<<wAb, wAbc>>), join(<<wAb, wCd>>),
                       <<"i", "t">>, join(<<wAb, wAbc, wCd>>)>>),
            Doc("3", <<wAb>>)) : l \in Layouts}

\* the questions: the unreachable keywords as they are authored, one after
\* the other
UnreachableQuestions ==
    {join(ps) : ps \in UNION {[1..n -> Range(UnreachableKeywords)] :
                                 n \in 0..MaxWords}}

\* the chat: the conversations tried
MaxTurns == 1       \* exchanges in the chat after which nothing more is sent

\* what is typed into the input box: a greeting, a greeting in capitals with
\* blanks and an exclamation mark, a greeting with a full stop, a question
ChatInputs ==
    {<<"h", "i">>, <<" ", "H", "e", "l", "l", "o", "!", " ">>,
     <<"h", "i", ".">>, wAb}

ChatIndex == Layout(1, Doc("1", <<wAb>>), Doc("2", <<wCd>>), Doc("3", <<wAbc>>))

\* the prompt window: the conversations a new message is sent in
MaxHistoryTurns == 4    \* turns already recorded when the message is sent

\* the histories n recorded turns leave, each a question and its reply
RECURSIVE HistoriesOf(_)
HistoriesOf(n) ==
    IF n = 0 THEN {<<>>}
    ELSE {h \o <<[role |-> "user", content |-> q],
                 [role |-> "assistant", content |-> <<"delta">>]>> :
             h \in HistoriesOf(n - 1), q \in {wAb, <<"h", "i", ".">>}}

Histories == UNION {HistoriesOf(n) : n \in 0..MaxHistoryTurns}

\* the Foundry app: what the configuration form holds when Save is clicked
Form(endpoint, key, deployment, region) ==
    [foundryEndpoint |-> endpoint, foundryKey |-> key,
     foundryDeployment |-> deployment, foundryRegion |-> region]

ConfigForms ==
    {Form(<<"h", "t", "t", "p", "s", ":", "/", "/", "a", ".", "c", "o", "m", "/", "x">>,
          <<"k">>, <<"d">>, <<"r">>),
     Form(<<"h", "t", "t", "p", "s", ":", "/", "/", "b", ".", "o", "r", "g">>,
          <<" ", "k", " ">>, <<"d">>, <<>>),
     Form(<<"H", "T", "T", "P", "S", ":", "/", "/", "a", ".", "c", "o", "m">>,
          <<"k">>, <<"d">>, <<"r">>),
     Form(<<"h", "t", "t", "p", ":", "/", "/", "a", ".", "c", "o", "m">>,
          <<"k">>, <<"d">>, <<"r">>),
     Form(<<"a", ".", "c", "o", "m">>,
          <<"k">>, <<"d">>, <<"r">>),
     Form(<<"h", "t", "t", "p", "s", ":", "/", "/">>,
          <<"k">>, <<"d">>, <<"r">>),
     Form(<<" ">>,
          <<"k">>, <<"d">>, <<"r">>),
     Form(<<"h", "t", "t", "p", "s", ":", "/", "/", "a", ".", "c", "o", "m", "/", "x">>,
          <<>>, <<"d">>, <<"r">>),
     Form(<<"h", "t", "t", "p", "s", ":", "/", "/", "a", ".", "c", "o", "m", "/", "x">>,
          <<"k">>, <<" ">>, <<"r">>)}

\* what is typed into the input box of the Foundry app
FoundryInputs == {<<"h", "i">>, wAb}

\* the ids the Foundry API gives its responses
ResponseIds == {"resp_1"}

\* what localStorage holds when the page is opened: nothing, or the entry a
\* saveConfig of an earlier visit left
StoredConfigs ==
    {<<>>,
     <<[endpoint |-> <<"h", "t", "t", "p", "s", ":", "/", "/", "a", ".", "c", "o", "m">>, deployment |-> <<"d">>,
        region |-> <<>>]>>}

(***************************************************************************)
(* The state machine                                                       *)
(***************************************************************************)
\* the chat as the page holds it before any message: the welcome text
InitialChat == <<[className |-> "welcome-message"]>>

\* the state the constructor leaves, index.json being one of `files` and the
\* browser one of `browsers` (with WebGPU or without)
InitWith(files, browsers) ==
    /\ indexJson \in files
    /\ webGPUSupported \in browsers
    /\ foundry = None
    /\ engine = Null
    /\ webGPUAvailable = FALSE
    /\ simpleMode = FALSE
    /\ isGenerating = FALSE
    /\ stopRequested = FALSE
    /\ conversationHistory = <<>>
    /\ chatMessages = InitialChat
    /\ generation = <<>>
    /\ typing = <<>>
    /\ statusTimeouts = 0
    /\ indexData = Null
    /\ keywordMap = Undefined
    /\ pc = "loading"
    /\ userQuestion = None
    /\ searchResult = None
    /\ contextResult = None
    /\ searchStatus = ""

Init == InitWith(Indexes, {TRUE})

\* loadIndex fetches and parses index.json and builds the keyword map
loadIndex ==
    /\ indexData' = indexJson
    /\ keywordMap' = buildKeywordMap(indexJson)

\* initializeWebLLM creates the engine; where that fails the app falls back
\* to simple mode
initializeWebLLM ==
    IF webGPUSupported
    THEN /\ engine' = "engine"
         /\ webGPUAvailable' = TRUE
         /\ simpleMode' = simpleMode
    ELSE /\ engine' = engine
         /\ webGPUAvailable' = FALSE
         /\ simpleMode' = TRUE

\* initialize: loadIndex, then initializeWebLLM, then the event listeners
\* are attached
initialize ==
    /\ pc = "loading"
    /\ loadIndex
    /\ initializeWebLLM
    /\ pc' = "idle"
    /\ UNCHANGED <<indexJson, userQuestion, searchResult, contextResult,
                   searchStatus, webGPUSupported, foundry, isGenerating, stopRequested,
                   conversationHistory, chatMessages, generation, typing,
                   statusTimeouts>>

\* the fetch fails after the keyword map was created empty
loadIndexFails_emptyMap ==
    /\ pc = "loading"
    /\ pc' = "failed"
    /\ keywordMap' = EmptyMap
    /\ UNCHANGED <<indexJson, indexData, userQuestion, searchResult,
                   contextResult, searchStatus>>
    /\ UNCHANGED chatVars

\* initialize where the fetch fails: loadIndex throws, initialize reports
\* the error, creates no engine and attaches no listener
loadIndexFails ==
    /\ pc = "loading"
    /\ pc' = "failed"
    /\ UNCHANGED <<indexJson, indexData, keywordMap, userQuestion,
                   searchResult, contextResult, searchStatus>>
    /\ UNCHANGED chatVars

\* searchContext taking the fallback document off the index
\* (documents.shift() for documents[0])
searchContext_shift(question) ==
    /\ pc = "idle"
    /\ LET result == performSearch(keywordMap, question)
           f == findFallback(indexData)
       IN  /\ searchResult' = result
           /\ contextResult' = assembleContext(indexData, result.matches)
           /\ searchStatus' = statusText(result.matches)
           /\ indexData' =
                  IF result.matches = <<>> /\ f # 0
                        /\ indexData[f].documents # <<>>
                  THEN [indexData EXCEPT ![f].documents = Tail(@)]
                  ELSE indexData
    /\ userQuestion' = question
    /\ pc' = "returned"
    /\ UNCHANGED <<indexJson, keywordMap>>
    /\ UNCHANGED chatVars

\* searchContext taking the kept keywords out of the keyword map
\* (keywordMap.delete for keywordMap.get)
searchContext_deleteMatched(question) ==
    /\ pc = "idle"
    /\ LET result == performSearch(keywordMap, question)
       IN  /\ searchResult' = result
           /\ contextResult' = assembleContext(indexData, result.matches)
           /\ searchStatus' = statusText(result.matches)
           /\ keywordMap' =
                  [k \in (DOMAIN keywordMap) \ Range(result.matchedKeywords) |->
                      keywordMap[k]]
    /\ userQuestion' = question
    /\ pc' = "returned"
    /\ UNCHANGED <<indexJson, indexData>>
    /\ UNCHANGED chatVars

\* a call searchContext(question) from sendMessage, run to completion
searchContext(question) ==
    /\ pc = "idle"
    /\ LET result == performSearch(keywordMap, question)
       IN  /\ searchResult' = result
           /\ contextResult' = assembleContext(indexData, result.matches)
           /\ searchStatus' = statusText(result.matches)
    /\ userQuestion' = question
    /\ pc' = "returned"
    /\ UNCHANGED <<indexJson, indexData, keywordMap>>
    /\ UNCHANGED chatVars

\* the caller is done with the returned bundle and the status text is cleared
clearSearchStatus ==
    /\ pc = "returned"
    /\ pc' = "idle"
    /\ userQuestion' = None
    /\ searchResult' = None
    /\ contextResult' = None
    /\ searchStatus' = ""
    /\ UNCHANGED <<indexJson, indexData, keywordMap>>
    /\ UNCHANGED chatVars

Next ==
    \/ initialize
    \/ loadIndexFails
    \/ \E question \in Questions : searchContext(question)
    \/ clearSearchStatus

Spec == Init /\ [][Next]_vars

\* the same engine over the index and the questions of the subset-filtering
\* example
InitPhrases == InitWith(PhraseIndexes, {TRUE})

NextPhrases ==
    \/ initialize
    \/ loadIndexFails
    \/ \E question \in PhraseQuestions : searchContext(question)
    \/ clearSearchStatus

SpecPhrases == InitPhrases /\ [][NextPhrases]_vars

\* the same engine over the Knowledge Index and the questions of the
\* concrete scenarios
InitScenarios == InitWith({ScenarioIndex}, {TRUE})

NextScenarios ==
    \/ initialize
    \/ loadIndexFails
    \/ \E question \in ScenarioQuestions : searchContext(question)
    \/ clearSearchStatus

SpecScenarios == InitScenarios /\ [][NextScenarios]_vars

\* the same engine over the keywords and the questions around the stop words
InitStopWords == InitWith(StopWordIndexes, {TRUE})

NextStopWords ==
    \/ initialize
    \/ loadIndexFails
    \/ \E question \in StopWordQuestions : searchContext(question)
    \/ clearSearchStatus

SpecStopWords == InitStopWords /\ [][NextStopWords]_vars

\* the same engine over the keywords no question can reach
InitUnreachable == InitWith(UnreachableIndexes, {TRUE})

NextUnreachable ==
    \/ initialize
    \/ loadIndexFails
    \/ \E question \in UnreachableQuestions : searchContext(question)
    \/ clearSearchStatus

SpecUnreachable == InitUnreachable /\ [][NextUnreachable]_vars

(***************************************************************************)
(* The chat: sendMessage, generateResponse and the other event handlers    *)
(***************************************************************************)
\* the alternatives of greetingPattern
greetings ==
    {<<"h", "i">>,
     <<"h", "e", "l", "l", "o">>,
     <<"h", "e", "y">>,
     <<"g", "r", "e", "e", "t", "i", "n", "g", "s">>,
     <<"g", "o", "o", "d", " ", "m", "o", "r", "n", "i", "n", "g">>,
     <<"g", "o", "o", "d", " ", "a", "f", "t", "e", "r", "n", "o", "o", "n">>,
     <<"g", "o", "o", "d", " ", "e", "v", "e", "n", "i", "n", "g">>}

\* greetingPattern.test(s), with greetingPattern
\* /^(hi|hello|hey|greetings|good morning|good afternoon|good evening)[\s!?]*$/i
greetingPattern(s) ==
    \E g \in greetings :
        /\ Len(s) >= Len(g)
        /\ toLowerCase(SubSeq(s, 1, Len(g))) = g
        /\ \A i \in (Len(g) + 1)..Len(s) :
               s[i] \in WhitespaceChars \cup {"!", "?"}

\* the element addMessage appends for the user; no handler reads its text
userMessageElement == [className |-> "message", role |-> "user"]

\* the element addMessage appends for Andrew; `by` tells what wrote it: the
\* greeting of sendMessage, generateSimpleResponse, the engine's stream, or
\* the catch block of generateResponse
assistantMessageElement(by) ==
    [className |-> "message", role |-> "assistant", by |-> by]

\* the element addSystemMessage appends
systemMessageElement(mode) ==
    [className |-> "system-message", mode |-> mode]

\* chat.querySelectorAll('.message')
messageElements(chat) == SelectSeq(chat, LAMBDA e : e.className = "message")

\* chat without the elements of querySelectorAll('.message:not(.welcome-message)')
withoutMessages(chat) == SelectSeq(chat, LAMBDA e : e.className # "message")

\* chat without its last '.message' element
RECURSIVE withoutLastMessage(_)
withoutLastMessage(chat) ==
    IF chat = <<>> THEN <<>>
    ELSE IF chat[Len(chat)].className = "message"
         THEN SubSeq(chat, 1, Len(chat) - 1)
         ELSE Append(withoutLastMessage(SubSeq(chat, 1, Len(chat) - 1)),
                     chat[Len(chat)])

\* the status generateSimpleResponse shows once the typing animation is
\* over, "" where it shows none
statusAfterTyping(bundle) ==
    IF Len(bundle.documents) > 0 /\ Len(bundle.categories) > 0
    THEN "Found in: " \o joinStrings(bundle.categories, ", ")
    ELSE ""

\* the system prompt of the constructor
systemPrompt == "You are Andrew, a knowledgeable and friendly AI learning assistant"

\* the whole array instead of its last n elements
slice_all(array, n) == array

\* array.slice(-n): the last n elements of the array
slice(array, n) ==
    IF Len(array) <= n THEN array
    ELSE SubSeq(array, Len(array) - n + 1, Len(array))

\* `${context}\n\nQ: ${userMessage}` where there is a context, kept as its
\* two parts; the message itself where there is none
userPrompt(context, userMessage) ==
    IF context = Null \/ context = "" THEN userMessage
    ELSE [context |-> context, Q |-> userMessage]

\* the messages generateResponse sends to the engine
requestMessages(history, context, userMessage) ==
    LET recentHistory == Append(slice(history, 6),
                                [role |-> "user",
                                 content |-> userPrompt(context, userMessage)])
    IN  <<[role |-> "system", content |-> systemPrompt]>> \o recentHistory

\* sendMessage, up to the first await of generateResponse; value is the text
\* in the input box
sendMessage(value) ==
    LET userMessage == trim(value)
        shown == Append(chatMessages, userMessageElement)
        messageCount == Len(messageElements(shown))
        result == performSearch(keywordMap, userMessage)
        bundle == assembleContext(indexData, result.matches)
    IN  /\ pc = "idle"
        /\ userMessage # <<>>
        /\ ~isGenerating
        /\ \/ \* the greeting of a first message: no search
              /\ messageCount <= 1
              /\ greetingPattern(userMessage)
              /\ chatMessages' = Append(shown, assistantMessageElement("greeting"))
              /\ userQuestion' = userMessage
              /\ searchResult' = None
              /\ contextResult' = None
              /\ UNCHANGED <<searchStatus, isGenerating, stopRequested,
                             generation, typing>>
           \/ \* searchContext, then generateSimpleResponse
              /\ ~(messageCount <= 1 /\ greetingPattern(userMessage))
              /\ simpleMode \/ ~webGPUAvailable
              /\ userQuestion' = userMessage
              /\ searchResult' = result
              /\ contextResult' = bundle
              /\ searchStatus' = statusText(result.matches)
              /\ chatMessages' = Append(shown, assistantMessageElement("simple"))
              /\ typing' = Append(typing, statusAfterTyping(bundle))
              /\ UNCHANGED <<isGenerating, stopRequested, generation>>
           \/ \* searchContext, then generateResponse asks the engine
              /\ ~(messageCount <= 1 /\ greetingPattern(userMessage))
              /\ ~(simpleMode \/ ~webGPUAvailable)
              /\ userQuestion' = userMessage
              /\ searchResult' = result
              /\ contextResult' = bundle
              /\ searchStatus' = statusText(result.matches)
              /\ isGenerating' = TRUE
              /\ stopRequested' = FALSE
              /\ chatMessages' = Append(shown, assistantMessageElement("engine"))
              /\ generation' = Append(generation,
                     [userMessage |-> userMessage,
                      messages |-> requestMessages(conversationHistory,
                                                   bundle.context, userMessage),
                      assistantMessage |-> <<>>,
                      attached |-> TRUE])
              /\ UNCHANGED typing
        /\ UNCHANGED <<indexJson, indexData, keywordMap, pc, webGPUSupported, foundry,
                       engine, webGPUAvailable, simpleMode,
                       conversationHistory, statusTimeouts>>

\* sendMessage while the conversation holds at most `turns` exchanges
sendMessageWithin(value, turns) ==
    /\ Len(messageElements(chatMessages)) <= 2 * turns
    /\ Len(conversationHistory) < 2 * turns
    /\ Len(typing) < MaxTurns
    /\ sendMessage(value)

\* generateResponse: a chunk of the stream arrives and is added to the reply
streamChunk ==
    /\ generation # <<>>
    /\ ~stopRequested
    /\ Len(generation[1].assistantMessage) < MaxTurns
    /\ generation' = [generation EXCEPT ![1].assistantMessage = Append(@, "delta")]
    /\ UNCHANGED <<indexJson, indexData, keywordMap, pc, userQuestion,
                   searchResult, contextResult, searchStatus, webGPUSupported, foundry,
                   engine, webGPUAvailable, simpleMode, isGenerating,
                   stopRequested, conversationHistory, chatMessages, typing,
                   statusTimeouts>>

\* generateResponse: the stream is over, or a chunk arrives after a stop was
\* requested and the loop breaks; the turn goes to the history
generationEnds ==
    /\ generation # <<>>
    /\ statusTimeouts < MaxTurns
    /\ conversationHistory' = conversationHistory \o
           <<[role |-> "user", content |-> generation[1].userMessage],
             [role |-> "assistant", content |-> generation[1].assistantMessage]>>
    /\ isGenerating' = FALSE
    /\ stopRequested' = FALSE
    /\ generation' = Tail(generation)
    /\ statusTimeouts' = statusTimeouts + 1
    /\ UNCHANGED <<indexJson, indexData, keywordMap, pc, userQuestion,
                   searchResult, contextResult, searchStatus, webGPUSupported, foundry,
                   engine, webGPUAvailable, simpleMode, chatMessages, typing>>

\* a failing generateResponse that has recorded the question before the
\* engine threw
generationFails_recordsQuestion ==
    /\ generation # <<>>
    /\ statusTimeouts < MaxTurns
    /\ chatMessages' =
           Append(IF generation[1].attached
                  THEN withoutLastMessage(chatMessages)
                  ELSE chatMessages,
                  assistantMessageElement("error"))
    /\ conversationHistory' = Append(conversationHistory,
           [role |-> "user", content |-> generation[1].userMessage])
    /\ isGenerating' = FALSE
    /\ stopRequested' = FALSE
    /\ generation' = Tail(generation)
    /\ statusTimeouts' = statusTimeouts + 1
    /\ UNCHANGED <<indexJson, indexData, keywordMap, pc, userQuestion,
                   searchResult, contextResult, searchStatus, webGPUSupported,
                   foundry, engine, webGPUAvailable, simpleMode, typing>>

\* generateResponse: the engine throws; the reply is taken off the chat and
\* an apology is appended
generationFails ==
    /\ generation # <<>>
    /\ statusTimeouts < MaxTurns
    /\ chatMessages' =
           Append(IF generation[1].attached
                  THEN withoutLastMessage(chatMessages)
                  ELSE chatMessages,
                  assistantMessageElement("error"))
    /\ isGenerating' = FALSE
    /\ stopRequested' = FALSE
    /\ generation' = Tail(generation)
    /\ statusTimeouts' = statusTimeouts + 1
    /\ UNCHANGED <<indexJson, indexData, keywordMap, pc, userQuestion,
                   searchResult, contextResult, searchStatus, webGPUSupported, foundry,
                   engine, webGPUAvailable, simpleMode, conversationHistory,
                   typing>>

\* the send button or Escape while a response is generated
stopGeneration ==
    /\ pc = "idle"
    /\ isGenerating
    /\ stopRequested' = TRUE
    /\ UNCHANGED <<indexJson, indexData, keywordMap, pc, userQuestion,
                   searchResult, contextResult, searchStatus, webGPUSupported, foundry,
                   engine, webGPUAvailable, simpleMode, isGenerating,
                   conversationHistory, chatMessages, generation, typing,
                   statusTimeouts>>

\* toggleMode without its test of webGPUAvailable
toggleMode_noGuard ==
    /\ pc = "idle"
    /\ Len(withoutMessages(chatMessages)) <= MaxTurns
    /\ simpleMode' = ~simpleMode
    /\ chatMessages' = Append(chatMessages,
           systemMessageElement(IF ~simpleMode THEN "Simple" ELSE "AI"))
    /\ UNCHANGED <<indexJson, indexData, keywordMap, pc, userQuestion,
                   searchResult, contextResult, searchStatus, webGPUSupported, foundry,
                   engine, webGPUAvailable, isGenerating, stopRequested,
                   conversationHistory, generation, typing, statusTimeouts>>

\* the mode toggle button
toggleMode ==
    /\ pc = "idle"
    /\ Len(withoutMessages(chatMessages)) <= MaxTurns
    /\ IF ~webGPUAvailable
       THEN UNCHANGED <<simpleMode, chatMessages>>
       ELSE /\ simpleMode' = ~simpleMode
            /\ chatMessages' = Append(chatMessages,
                   systemMessageElement(IF ~simpleMode THEN "Simple" ELSE "AI"))
    /\ UNCHANGED <<indexJson, indexData, keywordMap, pc, userQuestion,
                   searchResult, contextResult, searchStatus, webGPUSupported, foundry,
                   engine, webGPUAvailable, isGenerating, stopRequested,
                   conversationHistory, generation, typing, statusTimeouts>>

\* the restart button or Ctrl+N; confirmed is the answer to the confirm box
restartConversation(confirmed) ==
    /\ pc = "idle"
    /\ IF confirmed
       THEN /\ conversationHistory' = <<>>
            /\ chatMessages' = withoutMessages(chatMessages)
            /\ searchStatus' = ""
            /\ generation' = [i \in DOMAIN generation |->
                                 [generation[i] EXCEPT !.attached = FALSE]]
       ELSE UNCHANGED <<conversationHistory, chatMessages, searchStatus,
                        generation>>
    /\ UNCHANGED <<indexJson, indexData, keywordMap, pc, userQuestion,
                   searchResult, contextResult, webGPUSupported, foundry, engine,
                   webGPUAvailable, simpleMode, isGenerating, stopRequested,
                   typing, statusTimeouts>>

\* generateSimpleResponse: the typing animation i is over
typingEnds(i) ==
    /\ i \in DOMAIN typing
    /\ statusTimeouts < MaxTurns
    /\ typing' = [j \in 1..(Len(typing) - 1) |->
                     IF j < i THEN typing[j] ELSE typing[j + 1]]
    /\ IF typing[i] # ""
       THEN /\ searchStatus' = typing[i]
            /\ statusTimeouts' = statusTimeouts + 1
       ELSE UNCHANGED <<searchStatus, statusTimeouts>>
    /\ UNCHANGED <<indexJson, indexData, keywordMap, pc, userQuestion,
                   searchResult, contextResult, webGPUSupported, foundry, engine,
                   webGPUAvailable, simpleMode, isGenerating, stopRequested,
                   conversationHistory, chatMessages, generation>>

\* a timeout set after a response clears the search status
searchStatusTimeout ==
    /\ statusTimeouts > 0
    /\ statusTimeouts' = statusTimeouts - 1
    /\ searchStatus' = ""
    /\ UNCHANGED <<indexJson, indexData, keywordMap, pc, userQuestion,
                   searchResult, contextResult, webGPUSupported, foundry, engine,
                   webGPUAvailable, simpleMode, isGenerating, stopRequested,
                   conversationHistory, chatMessages, generation, typing>>

InitChat == InitWith({ChatIndex}, BOOLEAN)

NextChat ==
    \/ initialize
    \/ loadIndexFails
    \/ \E value \in ChatInputs : sendMessageWithin(value, MaxTurns)
    \/ streamChunk
    \/ generationEnds
    \/ generationFails
    \/ stopGeneration
    \/ toggleMode
    \/ \E confirmed \in BOOLEAN : restartConversation(confirmed)
    \/ \E i \in 1..MaxTurns : typingEnds(i)
    \/ searchStatusTimeout

SpecChat == InitChat /\ [][NextChat]_vars

(***************************************************************************)
(* A message sent in AI mode after the turns of a recorded history         *)
(***************************************************************************)
\* the chat after the turns of history h
chatAfter(h) ==
    InitialChat \o [i \in 1..Len(h) |->
                       IF h[i].role = "user" THEN userMessageElement
                       ELSE assistantMessageElement("engine")]

\* the page loaded with WebGPU, and the turns of a history answered; what
\* follows is what happens before the next status timeout fires
InitWindow ==
    /\ indexJson = ChatIndex
    /\ indexData = ChatIndex
    /\ keywordMap = buildKeywordMap(ChatIndex)
    /\ pc = "idle"
    /\ webGPUSupported = TRUE
    /\ foundry = None
    /\ engine = "engine"
    /\ webGPUAvailable = TRUE
    /\ simpleMode = FALSE
    /\ isGenerating = FALSE
    /\ stopRequested = FALSE
    /\ conversationHistory \in Histories
    /\ chatMessages = chatAfter(conversationHistory)
    /\ userQuestion = IF conversationHistory = <<>> THEN None
                      ELSE conversationHistory[Len(conversationHistory) - 1].content
    /\ searchResult = IF conversationHistory = <<>> THEN None
                      ELSE performSearch(keywordMap, userQuestion)
    /\ contextResult = IF conversationHistory = <<>> THEN None
                       ELSE assembleContext(indexData, searchResult.matches)
    /\ searchStatus = ""
    /\ generation = <<>>
    /\ typing = <<>>
    /\ statusTimeouts = 0

NextWindow ==
    \/ \E value \in ChatInputs : sendMessageWithin(value, MaxHistoryTurns + 1)
    \/ streamChunk
    \/ generationEnds
    \/ generationFails
    \/ stopGeneration

SpecWindow == InitWindow /\ [][NextWindow]_vars

(***************************************************************************)
(* The GPU/CPU app (computing-local/app.js), on its WebLLM engine.  Its    *)
(* loadIndex, performSearch, searchContext and restartConversation are the *)
(* same as above; sendMessage, stopGeneration and generateResponse differ. *)
(* A record of generation is one generateResponse call in progress:        *)
(* element is the place of its responseMessage in the chat, stopped tells  *)
(* that stopGeneration was called while it was in progress.                *)
(***************************************************************************)
\* seq without its element at place p
removeAt(seq, p) ==
    [j \in 1..(Len(seq) - 1) |-> IF j < p THEN seq[j] ELSE seq[j + 1]]

\* sendMessage of app.js, up to the first await of generateWithWebLLM
sendMessageLocal(value) ==
    LET userMessage == trim(value)
        shown == Append(chatMessages, userMessageElement)
        messageCount == Len(messageElements(shown))
        result == performSearch(keywordMap, userMessage)
        bundle == assembleContext(indexData, result.matches)
    IN  /\ pc = "idle"
        /\ userMessage # <<>>
        /\ ~isGenerating
        /\ Len(messageElements(chatMessages)) <= 2 * MaxTurns
        /\ Len(conversationHistory) < 2 * MaxTurns
        /\ Len(generation) <= MaxTurns
        /\ \/ \* the greeting of a first message: searchContext is not called
              /\ messageCount <= 1
              /\ greetingPattern(userMessage)
              /\ chatMessages' = Append(shown, assistantMessageElement("greeting"))
              /\ userQuestion' = userMessage
              /\ searchResult' = None
              /\ contextResult' = None
              /\ UNCHANGED <<searchStatus, isGenerating, stopRequested,
                             generation>>
           \/ \* searchContext, then generateResponse asks the engine
              /\ ~(messageCount <= 1 /\ greetingPattern(userMessage))
              /\ userQuestion' = userMessage
              /\ searchResult' = result
              /\ contextResult' = bundle
              /\ searchStatus' = statusText(result.matches)
              /\ isGenerating' = TRUE
              /\ stopRequested' = FALSE
              /\ chatMessages' = Append(shown, assistantMessageElement("engine"))
              /\ generation' = Append(generation,
                     [userMessage |-> userMessage,
                      messages |-> requestMessages(conversationHistory,
                                                   bundle.context, userMessage),
                      assistantMessage |-> <<>>,
                      attached |-> TRUE,
                      element |-> Len(shown) + 1,
                      stopped |-> FALSE])
        /\ UNCHANGED <<indexJson, indexData, keywordMap, pc, webGPUSupported, foundry,
                       engine, webGPUAvailable, simpleMode,
                       conversationHistory, typing, statusTimeouts>>

\* generateWithWebLLM of call i: a chunk arrives and is added to the reply
streamChunkLocal(i) ==
    /\ i \in DOMAIN generation
    /\ ~stopRequested
    /\ Len(generation[i].assistantMessage) < MaxTurns
    /\ generation' = [generation EXCEPT ![i].assistantMessage = Append(@, "delta")]
    /\ UNCHANGED <<indexJson, indexData, keywordMap, pc, userQuestion,
                   searchResult, contextResult, searchStatus, webGPUSupported, foundry,
                   engine, webGPUAvailable, simpleMode, isGenerating,
                   stopRequested, conversationHistory, chatMessages, typing,
                   statusTimeouts>>

\* generateResponse of call i: its stream is over, or a chunk arrives while
\* stopRequested is set and the loop breaks; the turn goes to the history
\* unless stopRequested is set or the reply is empty
generationEndsLocal(i) ==
    /\ i \in DOMAIN generation
    /\ statusTimeouts < MaxTurns
    /\ conversationHistory' =
           IF ~stopRequested /\ generation[i].assistantMessage # <<>>
           THEN conversationHistory \o
                    <<[role |-> "user", content |-> generation[i].userMessage],
                      [role |-> "assistant",
                       content |-> generation[i].assistantMessage]>>
           ELSE conversationHistory
    /\ isGenerating' = FALSE
    /\ stopRequested' = FALSE
    /\ generation' = removeAt(generation, i)
    /\ statusTimeouts' = statusTimeouts + 1
    /\ UNCHANGED <<indexJson, indexData, keywordMap, pc, userQuestion,
                   searchResult, contextResult, searchStatus, webGPUSupported, foundry,
                   engine, webGPUAvailable, simpleMode, chatMessages, typing>>

\* generateResponse of call i: the engine throws; the reply is taken off the
\* chat and an apology is appended
generationFailsLocal(i) ==
    /\ i \in DOMAIN generation
    /\ statusTimeouts < MaxTurns
    /\ LET g == generation[i]
           others == removeAt(generation, i)
       IN  /\ chatMessages' =
                  Append(IF g.attached THEN removeAt(chatMessages, g.element)
                         ELSE chatMessages,
                         assistantMessageElement("error"))
           /\ generation' =
                  [j \in DOMAIN others |->
                      IF g.attached /\ others[j].element > g.element
                      THEN [others[j] EXCEPT !.element = @ - 1]
                      ELSE others[j]]
    /\ isGenerating' = FALSE
    /\ stopRequested' = FALSE
    /\ statusTimeouts' = statusTimeouts + 1
    /\ UNCHANGED <<indexJson, indexData, keywordMap, pc, userQuestion,
                   searchResult, contextResult, searchStatus, webGPUSupported, foundry,
                   engine, webGPUAvailable, simpleMode, conversationHistory,
                   typing>>

\* stopGeneration of app.js: the send button or Escape while isGenerating
stopGenerationLocal ==
    /\ pc = "idle"
    /\ isGenerating
    /\ isGenerating' = FALSE
    /\ stopRequested' = TRUE
    /\ generation' = [i \in DOMAIN generation |->
                         [generation[i] EXCEPT !.stopped = TRUE]]
    /\ UNCHANGED <<indexJson, indexData, keywordMap, pc, userQuestion,
                   searchResult, contextResult, searchStatus, webGPUSupported, foundry,
                   engine, webGPUAvailable, simpleMode, conversationHistory,
                   chatMessages, typing, statusTimeouts>>

InitLocal == InitWith({ChatIndex}, {TRUE})

NextLocal ==
    \/ initialize
    \/ loadIndexFails
    \/ \E value \in ChatInputs : sendMessageLocal(value)
    \/ \E i \in 1..(MaxTurns + 1) : streamChunkLocal(i)
    \/ \E i \in 1..(MaxTurns + 1) : generationEndsLocal(i)
    \/ \E i \in 1..(MaxTurns + 1) : generationFailsLocal(i)
    \/ stopGenerationLocal
    \/ \E confirmed \in BOOLEAN : restartConversation(confirmed)
    \/ searchStatusTimeout

SpecLocal == InitLocal /\ [][NextLocal]_vars

(***************************************************************************)
(* The Foundry app (the second class AskAndrew of script.js).  foundry     *)
(* holds its config, isConfigured, previousResponseId, the configStatus    *)
(* element, the fields of the configuration form and the localStorage      *)
(* entry 'askAndrewFoundryConfig' (<<>> when there is none).  A record of   *)
(* generation is one callFoundryAPI call, or the typing animation that      *)
(* follows its response.                                                   *)
(***************************************************************************)
\* s.indexOf(sub), counted from 0; -1 where sub does not occur
indexOf(s, sub) ==
    LET at == {i \in 0..(Len(s) - Len(sub)) :
                  \A j \in 1..Len(sub) : s[i + j] = sub[j]}
    IN  IF at = {} THEN -1 ELSE CHOOSE i \in at : \A k \in at : i <= k

\* new URL(endpoint).protocol, "TypeError" where the constructor throws: a
\* URL needs a scheme of letters before its first colon, and an http(s) URL
\* needs a host after it
urlProtocol(endpoint) ==
    LET colon == indexOf(endpoint, <<":">>)
        scheme == toLowerCase(SubSeq(endpoint, 1, colon))
        rest == SubSeq(endpoint, colon + 2, Len(endpoint))
        host == SelectSeq(rest, LAMBDA c : c # "/")
    IN  IF colon < 1 \/ \E i \in DOMAIN scheme : scheme[i] \notin Range(LowerLetters)
        THEN "TypeError"
        ELSE IF scheme \in {<<"h", "t", "t", "p">>, <<"h", "t", "t", "p", "s">>}
                /\ host = <<>>
        THEN "TypeError"
        ELSE scheme \o <<":">>

\* endpoint.substring(0, comIndex + 4) where ".com" occurs, else the endpoint
baseEndpointOf(endpoint) ==
    LET comIndex == indexOf(endpoint, <<".", "c", "o", "m">>)
    IN  IF comIndex # -1 THEN SubSeq(endpoint, 1, comIndex + 4) ELSE endpoint

EmptyConfig ==
    [endpoint |-> <<>>, apiKey |-> <<>>, deployment |-> <<>>, region |-> <<>>]

\* loadConfig: the saved endpoint, deployment and region, never the API key
loadConfig(state) ==
    IF state.localStorage = <<>> THEN state
    ELSE LET savedConfig == state.localStorage[1]
             config == [state.config EXCEPT !.endpoint = savedConfig.endpoint,
                                            !.deployment = savedConfig.deployment,
                                            !.region = savedConfig.region]
         IN  [state EXCEPT !.config = config,
                           !.form = Form(config.endpoint, <<>>,
                                         config.deployment, config.region),
                           !.isConfigured =
                               IF config.endpoint # <<>> /\ config.apiKey # <<>>
                                  /\ config.deployment # <<>>
                               THEN TRUE ELSE @]

InitFoundry ==
    /\ indexJson = ChatIndex
    /\ indexData = Null
    /\ keywordMap = Undefined
    /\ pc = "loading"
    /\ userQuestion = None
    /\ searchResult = None
    /\ contextResult = None
    /\ searchStatus = ""
    /\ webGPUSupported = FALSE
    /\ engine = Null
    /\ webGPUAvailable = FALSE
    /\ simpleMode = FALSE
    /\ isGenerating = FALSE
    /\ stopRequested = FALSE
    /\ conversationHistory = <<>>
    /\ chatMessages = InitialChat
    /\ generation = <<>>
    /\ typing = <<>>
    /\ statusTimeouts = 0
    /\ \E stored \in StoredConfigs :
           foundry = [config |-> EmptyConfig,
                      isConfigured |-> FALSE,
                      previousResponseId |-> Null,
                      configStatus |-> "",
                      form |-> Form(<<>>, <<>>, <<>>, <<>>),
                      localStorage |-> stored]

\* initialize of the Foundry app: loadConfig, loadIndex, the listeners
initializeFoundry ==
    /\ pc = "loading"
    /\ foundry' = loadConfig(foundry)
    /\ loadIndex
    /\ pc' = "idle"
    /\ UNCHANGED <<indexJson, userQuestion, searchResult, contextResult,
                   searchStatus, webGPUSupported, engine, webGPUAvailable,
                   simpleMode, isGenerating, stopRequested,
                   conversationHistory, chatMessages, generation, typing,
                   statusTimeouts>>

\* saveConfig that stores whatever the form holds
saveConfig_noValidation(form) ==
    /\ pc = "idle"
    /\ foundry' = [foundry EXCEPT
                      !.form = form,
                      !.config = [endpoint |-> baseEndpointOf(trim(form.foundryEndpoint)),
                                  apiKey |-> trim(form.foundryKey),
                                  deployment |-> trim(form.foundryDeployment),
                                  region |-> trim(form.foundryRegion)],
                      !.localStorage =
                          <<[endpoint |-> baseEndpointOf(trim(form.foundryEndpoint)),
                             deployment |-> trim(form.foundryDeployment),
                             region |-> trim(form.foundryRegion)]>>,
                      !.isConfigured = TRUE,
                      !.configStatus = "Configuration saved successfully!"]
    /\ UNCHANGED <<indexJson, indexData, keywordMap, pc, userQuestion,
                   searchResult, contextResult, searchStatus, webGPUSupported,
                   engine, webGPUAvailable, simpleMode, isGenerating,
                   stopRequested, conversationHistory, chatMessages,
                   generation, typing, statusTimeouts>>

\* the Save button of the configuration form, clicked with `form` typed into
\* its fields: saveConfig
saveConfig(form) ==
    LET endpoint == trim(form.foundryEndpoint)
        apiKey == trim(form.foundryKey)
        deployment == trim(form.foundryDeployment)
        region == trim(form.foundryRegion)
        typed == [foundry EXCEPT !.form = form]
    IN  /\ pc = "idle"
        /\ foundry' =
               IF endpoint = <<>> \/ apiKey = <<>> \/ deployment = <<>>
               THEN [typed EXCEPT !.configStatus = "Please fill in all fields"]
               ELSE IF urlProtocol(endpoint) = "TypeError"
               THEN [typed EXCEPT !.configStatus = "Invalid endpoint URL"]
               ELSE IF urlProtocol(endpoint) # <<"h", "t", "t", "p", "s", ":">>
               THEN [typed EXCEPT !.configStatus = "Endpoint must use HTTPS"]
               ELSE [typed EXCEPT
                        !.config = [endpoint |-> baseEndpointOf(endpoint),
                                    apiKey |-> apiKey,
                                    deployment |-> deployment,
                                    region |-> region],
                        !.localStorage =
                            <<[endpoint |-> baseEndpointOf(endpoint),
                               deployment |-> deployment,
                               region |-> region]>>,
                        !.isConfigured = TRUE,
                        !.configStatus = "Configuration saved successfully!"]
        /\ UNCHANGED <<indexJson, indexData, keywordMap, pc, userQuestion,
                       searchResult, contextResult, searchStatus,
                       webGPUSupported, engine, webGPUAvailable, simpleMode,
                       isGenerating, stopRequested, conversationHistory,
                       chatMessages, generation, typing, statusTimeouts>>

\* `Context:\n${context}\n\nQuestion: ${userMessage}` where there is a
\* context, kept as its two parts; the message itself where there is none
foundryInput(context, userMessage) ==
    IF context = Null \/ context = "" THEN userMessage
    ELSE [Context |-> context, Question |-> userMessage]

\* sendMessage of the Foundry app, up to the fetch of callFoundryAPI
sendMessageFoundry(value) ==
    LET userMessage == trim(value)
        shown == Append(chatMessages, userMessageElement)
        messageCount == Len(messageElements(shown))
        result == performSearch(keywordMap, userMessage)
        bundle == assembleContext(indexData, result.matches)
    IN  /\ pc = "idle"
        /\ userMessage # <<>>
        /\ ~isGenerating
        /\ Len(messageElements(chatMessages)) <= 2 * MaxTurns
        /\ Len(conversationHistory) < 2 * MaxTurns
        /\ \/ \* not configured: no search and no request
              /\ ~foundry.isConfigured
              /\ chatMessages' = Append(shown, assistantMessageElement("configure"))
              /\ userQuestion' = userMessage
              /\ searchResult' = None
              /\ contextResult' = None
              /\ UNCHANGED <<searchStatus, isGenerating, generation>>
           \/ \* the greeting of a first message: searchContext is not called
              /\ foundry.isConfigured
              /\ messageCount <= 1
              /\ greetingPattern(userMessage)
              /\ chatMessages' = Append(shown, assistantMessageElement("greeting"))
              /\ userQuestion' = userMessage
              /\ searchResult' = None
              /\ contextResult' = None
              /\ UNCHANGED <<searchStatus, isGenerating, generation>>
           \/ \* searchContext, then generateResponse calls the Foundry API
              /\ foundry.isConfigured
              /\ ~(messageCount <= 1 /\ greetingPattern(userMessage))
              /\ userQuestion' = userMessage
              /\ searchResult' = result
              /\ contextResult' = bundle
              /\ searchStatus' = statusText(result.matches)
              /\ isGenerating' = TRUE
              /\ chatMessages' = Append(shown, assistantMessageElement("foundry"))
              /\ generation' = Append(generation,
                     [userMessage |-> userMessage,
                      url |-> foundry.config.endpoint,
                      input |-> foundryInput(bundle.context, userMessage),
                      previous_response_id |-> foundry.previousResponseId,
                      response |-> <<>>,
                      attached |-> TRUE])
        /\ UNCHANGED <<indexJson, indexData, keywordMap, pc, webGPUSupported,
                       foundry, engine, webGPUAvailable, simpleMode,
                       stopRequested, conversationHistory, typing,
                       statusTimeouts>>

\* callFoundryAPI: the response arrives with its id; its text is typed out
foundryResponds(id) ==
    /\ generation # <<>>
    /\ generation[1].response = <<>>
    /\ foundry' = [foundry EXCEPT !.previousResponseId = id]
    /\ generation' = [generation EXCEPT ![1].response = <<"text">>]
    /\ UNCHANGED <<indexJson, indexData, keywordMap, pc, userQuestion,
                   searchResult, contextResult, searchStatus, webGPUSupported,
                   engine, webGPUAvailable, simpleMode, isGenerating,
                   stopRequested, conversationHistory, chatMessages, typing,
                   statusTimeouts>>

\* generateResponse of the Foundry app: the typing animation is over, the
\* turn goes to the history
foundryTypingEnds ==
    /\ generation # <<>>
    /\ generation[1].response # <<>>
    /\ statusTimeouts < MaxTurns
    /\ conversationHistory' = conversationHistory \o
           <<[role |-> "user", content |-> generation[1].userMessage],
             [role |-> "assistant", content |-> generation[1].response]>>
    /\ isGenerating' = FALSE
    /\ generation' = Tail(generation)
    /\ statusTimeouts' = statusTimeouts + 1
    /\ UNCHANGED <<indexJson, indexData, keywordMap, pc, userQuestion,
                   searchResult, contextResult, searchStatus, webGPUSupported,
                   foundry, engine, webGPUAvailable, simpleMode,
                   stopRequested, chatMessages, typing>>

\* callFoundryAPI throws (no connection, or a response that is not ok)
foundryFails ==
    /\ generation # <<>>
    /\ generation[1].response = <<>>
    /\ statusTimeouts < MaxTurns
    /\ chatMessages' =
           Append(IF generation[1].attached
                  THEN withoutLastMessage(chatMessages)
                  ELSE chatMessages,
                  assistantMessageElement("error"))
    /\ isGenerating' = FALSE
    /\ generation' = Tail(generation)
    /\ statusTimeouts' = statusTimeouts + 1
    /\ UNCHANGED <<indexJson, indexData, keywordMap, pc, userQuestion,
                   searchResult, contextResult, searchStatus, webGPUSupported,
                   foundry, engine, webGPUAvailable, simpleMode,
                   stopRequested, conversationHistory, typing>>

\* restartConversation of the Foundry app
restartConversationFoundry(confirmed) ==
    /\ pc = "idle"
    /\ IF confirmed
       THEN /\ conversationHistory' = <<>>
            /\ foundry' = [foundry EXCEPT !.previousResponseId = Null]
            /\ chatMessages' = withoutMessages(chatMessages)
            /\ searchStatus' = ""
            /\ generation' = [i \in DOMAIN generation |->
                                 [generation[i] EXCEPT !.attached = FALSE]]
       ELSE UNCHANGED <<conversationHistory, foundry, chatMessages,
                        searchStatus, generation>>
    /\ UNCHANGED <<indexJson, indexData, keywordMap, pc, userQuestion,
                   searchResult, contextResult, webGPUSupported, engine,
                   webGPUAvailable, simpleMode, isGenerating, stopRequested,
                   typing, statusTimeouts>>

NextFoundry ==
    \/ initializeFoundry
    \/ \E form \in ConfigForms : saveConfig(form)
    \/ \E value \in FoundryInputs : sendMessageFoundry(value)
    \/ \E id \in ResponseIds : foundryResponds(id)
    \/ foundryTypingEnds
    \/ foundryFails
    \/ \E confirmed \in BOOLEAN : restartConversationFoundry(confirmed)
    \/ searchStatusTimeout

SpecFoundry == InitFoundry /\ [][NextFoundry]_vars

(***************************************************************************)
(* What the claims speak of                                                *)
(***************************************************************************)
\* the scan order of section 4.2: trigrams, then bigrams, then the
\* qualifying unigrams, each left to right
ScanOrder(question) ==
    LET ws == split(normalizeQuestion(question))
    IN  windows(ws, 3) \o windows(ws, 2) \o unigrams(ws)

\* the keywords the question's n-grams hit, before subset filtering
Triggered ==
    {g.text : g \in Range(ScanOrder(userQuestion))} \cap DOMAIN keywordMap

\* the kept-keyword set performSearch returned
Kept == Range(searchResult.matchedKeywords)

\* the number of words of a phrase: one more than its spaces
NumWords(k) == 1 + Cardinality({i \in DOMAIN k : k[i] = " "})

\* k occurs inside phrase p
IsSubstring(k, p) ==
    \E i \in 0..(Len(p) - Len(k)) : \A j \in 1..Len(k) : p[i + j] = k[j]

\* C1, general part: a triggered keyword lying inside a triggered keyword of
\* more words is not kept
ShorterInsideLongerDropped ==
    LET triggered == Triggered
    IN  \A k1 \in triggered : \A k2 \in triggered :
            (NumWords(k1) > NumWords(k2) /\ IsSubstring(k2, k1)) => k2 \notin Kept

\* C1 as stated: whenever "large language model" and "language model" are both
\* triggered, the kept set holds the former and not the latter
C1_AsStated ==
    pc = "returned" =>
        /\ ShorterInsideLongerDropped
        /\ ({LargeLanguageModel, LanguageModel} \subseteq Triggered =>
                /\ LargeLanguageModel \in Kept
                /\ LanguageModel \notin Kept)

\* C1 amended: a keyword inside a triggered keyword of more words is never
\* kept; "language model" is never kept beside a triggered "large language
\* model", and the kept set holds "large language model" or a keyword that
\* contains it
C1_SubsetFiltering ==
    pc = "returned" =>
        /\ ShorterInsideLongerDropped
        /\ ({LargeLanguageModel, LanguageModel} \subseteq Triggered =>
                /\ LanguageModel \notin Kept
                /\ \/ LargeLanguageModel \in Kept
                   \/ \E k \in Kept : /\ k # LargeLanguageModel
                                      /\ IsSubstring(LargeLanguageModel, k))

\* both phrases triggered, the longer kept, the shorter dropped
C1_Witness ==
    /\ pc = "returned"
    /\ {LargeLanguageModel, LanguageModel} \subseteq Triggered
    /\ LargeLanguageModel \in Kept
    /\ LanguageModel \notin Kept

\* the matches performSearch returned
Matches == searchResult.matches

\* the index has been loaded
Loaded == pc \in {"idle", "returned"}

\* the id of the document the keyword index gives keyword k to
OwnerOf(k) == keywordMap[k].document.id

\* every triggered keyword of the document that owns k was filtered out
LostAllKeywords(k) ==
    \A k2 \in Triggered : OwnerOf(k2) = OwnerOf(k) => k2 \notin Kept

\* C2: every returned match has a non-empty matchedKeywords list within the
\* kept set, and a document all of whose matched keywords were filtered out
\* is in no returned match
C2_BucketIntegrity ==
    pc = "returned" =>
        /\ \A i \in DOMAIN Matches :
               /\ Matches[i].matchedKeywords # <<>>
               /\ Range(Matches[i].matchedKeywords) \subseteq Kept
        /\ \A k \in Triggered :
               LostAllKeywords(k) =>
                   \A i \in DOMAIN Matches : Matches[i].document.id # OwnerOf(k)

\* one document lost its bucket to filtering while another was returned
C2_Witness ==
    /\ pc = "returned"
    /\ Matches # <<>>
    /\ \E k \in Triggered : LostAllKeywords(k)

\* the result of the fallback path for category c of the index
FallbackResult(c) ==
    [context    |-> "[AI Concepts]\n" \o c.documents[1].content,
     categories |-> <<c.category>>,
     links      |-> <<c.link>>,
     documents  |-> <<c.documents[1]>>]

EmptyResult ==
    [context |-> Null, categories |-> <<>>, links |-> <<>>, documents |-> <<>>]

\* the categories named "AI Concepts" that hold a document
FallbackCategories ==
    {i \in DOMAIN indexData :
        /\ indexData[i].category = "AI Concepts"
        /\ indexData[i].documents # <<>>}

\* C3: when performSearch returns no match, searchContext returns the bundle
\* of the first document of category "AI Concepts" if the index has that
\* category with a document, and the empty result otherwise
C3_Fallback ==
    (pc = "returned" /\ Matches = <<>>) =>
        IF FallbackCategories # {}
        THEN \E i \in FallbackCategories :
                 contextResult = FallbackResult(indexData[i])
        ELSE contextResult = EmptyResult

\* no match, and the fallback category, not the first of the index, or
\* holding several documents, supplied the bundle
C3_Witness ==
    /\ pc = "returned"
    /\ Matches = <<>>
    /\ contextResult # EmptyResult
    /\ \E i \in FallbackCategories : Len(indexData[i].documents) > 1

\* the places <<category, document>> of the index where a keyword
\* normalizing to k is authored
Authored(k) ==
    {<<c, d>> \in (DOMAIN indexData) \X (1..3) :
        /\ d \in DOMAIN indexData[c].documents
        /\ \E j \in DOMAIN indexData[c].documents[d].keywords :
               trim(toLowerCase(indexData[c].documents[d].keywords[j])) = k}

\* place p comes later in load order than place q
LoadedAfter(p, q) == p[1] > q[1] \/ (p[1] = q[1] /\ p[2] > q[2])

\* the last place of a non-empty set of places, in load order
LastOf(places) ==
    CHOOSE p \in places : \A q \in places : q = p \/ LoadedAfter(p, q)

DocumentAt(p) == indexData[p[1]].documents[p[2]]

\* the keyword index gives keyword k, authored at `places`, to the last
\* document, in load order, that authors it
LastWriterOwns(k, places) ==
    /\ places # {}
    /\ keywordMap[k] = [document |-> DocumentAt(LastOf(places)),
                        category |-> indexData[LastOf(places)[1]].category,
                        link     |-> indexData[LastOf(places)[1]].link]

\* document id is returned with k among its matched keywords
MatchedThrough(id, k) ==
    \E i \in DOMAIN Matches :
        Matches[i].document.id = id /\ k \in Range(Matches[i].matchedKeywords)

Returned(id) == \E i \in DOMAIN Matches : Matches[i].document.id = id

\* after loadIndex every keyword of the index belongs to its last writer
IndexIsLastWriteWins ==
    pc = "idle" => \A k \in DOMAIN keywordMap : LastWriterOwns(k, Authored(k))

\* C4 as stated: a keyword authored under two documents belongs to the later
\* one, and every question matching it yields a match for the later document
\* and none for an earlier one unless another keyword matched that one
C4_AsStated ==
    /\ IndexIsLastWriteWins
    /\ pc = "returned" =>
           \A k \in Triggered :
               LET places == Authored(k)
               IN  Cardinality(places) >= 2 =>
                       /\ LastWriterOwns(k, places)
                       /\ Returned(DocumentAt(LastOf(places)).id)
                       /\ \A p \in places \ {LastOf(places)} :
                              ~MatchedThrough(DocumentAt(p).id, k)

\* C4 amended: a keyword authored under two documents belongs to the later
\* one, and every question matching it, unless subset filtering removes the
\* keyword, yields a match for the later document through that keyword and
\* none through it for an earlier one
C4_LastWriteWins ==
    /\ IndexIsLastWriteWins
    /\ pc = "returned" =>
           \A k \in Triggered :
               LET places == Authored(k)
               IN  Cardinality(places) >= 2 =>
                       /\ LastWriterOwns(k, places)
                       /\ k \in Kept =>
                              /\ MatchedThrough(DocumentAt(LastOf(places)).id, k)
                              /\ \A p \in places \ {LastOf(places)} :
                                     ~MatchedThrough(DocumentAt(p).id, k)

\* a kept keyword authored under two documents brought the later one and
\* not the earlier one
C4_Witness ==
    /\ pc = "returned"
    /\ \E k \in Triggered \cap Kept :
           LET places == Authored(k)
           IN  /\ Cardinality(places) >= 2
               /\ Returned(DocumentAt(LastOf(places)).id)
               /\ \E p \in places : ~Returned(DocumentAt(p).id)

\* the keyword occurrences of the index: <<category, document, keyword>>
Occurrences ==
    {<<c, d, j>> \in (DOMAIN indexData) \X (1..3) \X (1..5) :
        /\ d \in DOMAIN indexData[c].documents
        /\ j \in DOMAIN indexData[c].documents[d].keywords}

RawKeyword(o) == indexData[o[1]].documents[o[2]].keywords[o[3]]

\* C5: the keys of the keyword index are the non-empty lowercased, trimmed
\* keywords of the documents, and no more of them than keyword occurrences
C5_KeywordIndex ==
    pc = "idle" =>
        /\ DOMAIN keywordMap =
               {trim(toLowerCase(RawKeyword(o))) : o \in Occurrences} \ {<<>>}
        /\ \A k \in DOMAIN keywordMap :
               /\ k # <<>>
               /\ k[1] \notin WhitespaceChars
               /\ k[Len(k)] \notin WhitespaceChars
               /\ \A i \in DOMAIN k : k[i] \notin Range(UpperLetters)
        /\ Cardinality(DOMAIN keywordMap) <= Cardinality(Occurrences)

\* an index with a keyword that normalization changes, a blank keyword and
\* fewer keys than occurrences
C5_Witness ==
    /\ pc = "idle"
    /\ \E o \in Occurrences :
           /\ trim(toLowerCase(RawKeyword(o))) # RawKeyword(o)
           /\ trim(toLowerCase(RawKeyword(o))) \in DOMAIN keywordMap
    /\ \E o \in Occurrences : trim(toLowerCase(RawKeyword(o))) = <<>>
    /\ Cardinality(DOMAIN keywordMap) < Cardinality(Occurrences)

\* what an engine freshly loaded from index file `data` answers to question q
FreshAnswer(data, q) ==
    assembleContext(data, performSearch(buildKeywordMap(data), q).matches)

\* C6: the bundle returned for a question is the one a freshly loaded engine
\* returns for it, whatever was asked before: it depends on the Knowledge
\* Index and the question alone
C6_Determinism ==
    pc = "returned" => contextResult = FreshAnswer(indexJson, userQuestion)

\* a question answered with a bundle of several documents
C6_Witness ==
    /\ pc = "returned"
    /\ Len(contextResult.documents) >= 2
    /\ contextResult = FreshAnswer(indexJson, userQuestion)

\* the positions of scan at which document id is hit
Hits(scan, id) ==
    {i \in DOMAIN scan :
        scan[i].text \in DOMAIN keywordMap /\ OwnerOf(scan[i].text) = id}

\* the position of the first hit of document id, 0 if it is never hit
FirstHit(scan, id) ==
    LET hits == Hits(scan, id)
    IN  IF hits = {} THEN 0 ELSE CHOOSE i \in hits : \A j \in hits : i <= j

\* C8: the returned matches are in the order of their documents' first hits
\* in the scan trigrams, bigrams, unigrams
C8_MatchOrder ==
    pc = "returned" =>
        LET scan == ScanOrder(userQuestion)
        IN  \A j \in DOMAIN Matches :
                /\ FirstHit(scan, Matches[j].document.id) > 0
                /\ j > 1 => FirstHit(scan, Matches[j - 1].document.id)
                                < FirstHit(scan, Matches[j].document.id)

\* a document first hit by a phrase of several words precedes one first hit
\* by the single word that opens the question
C8_Witness ==
    /\ pc = "returned"
    /\ \E i \in DOMAIN Matches : \E j \in DOMAIN Matches :
           LET scan == ScanOrder(userQuestion)
               gi == scan[FirstHit(scan, Matches[i].document.id)]
               gj == scan[FirstHit(scan, Matches[j].document.id)]
               first == Head(split(normalizeQuestion(userQuestion)))
           IN  /\ i < j
               /\ gi.length >= 2
               /\ gj.length = 1
               /\ gj.text = first
               /\ Head(split(gi.text)) # first

\* the first position of x in seq
FirstIndex(seq, x) ==
    CHOOSE i \in DOMAIN seq : seq[i] = x /\ \A j \in 1..(i - 1) : seq[j] # x

\* list holds the values of seq once each, in the order of first occurrence
FirstOccurrences(list, seq) ==
    /\ Range(list) = Range(seq)
    /\ \A a \in DOMAIN list : \A b \in DOMAIN list :
           a < b => /\ list[a] # list[b]
                    /\ FirstIndex(seq, list[a]) < FirstIndex(seq, list[b])

\* the blocks of the first n matches, joined by a blank line
RECURSIVE BlocksUpTo(_)
BlocksUpTo(n) ==
    LET block == "[" \o Matches[n].category \o " - "
                     \o Matches[n].document.title \o "]\n"
                     \o Matches[n].document.content
    IN  IF n = 1 THEN block ELSE BlocksUpTo(n - 1) \o "\n\n" \o block

\* C9: with at least one match the bundle holds the matches' blocks joined
\* by a blank line, their documents in order, and their categories and
\* links once each in the order of first occurrence
C9_ContextAssembly ==
    (pc = "returned" /\ Matches # <<>>) =>
        /\ contextResult.context = BlocksUpTo(Len(Matches))
        /\ contextResult.documents = [i \in DOMAIN Matches |-> Matches[i].document]
        /\ FirstOccurrences(contextResult.categories,
                            [i \in DOMAIN Matches |-> Matches[i].category])
        /\ FirstOccurrences(contextResult.links,
                            [i \in DOMAIN Matches |-> Matches[i].link])

\* several matches, two of them of one category
C9_Witness ==
    /\ pc = "returned"
    /\ Len(Matches) >= 2
    /\ Len(contextResult.categories) < Len(Matches)
    /\ contextResult.documents = [i \in DOMAIN Matches |-> Matches[i].document]

\* the link the Knowledge Index gives the category called name
LinkOfCategory(name) ==
    indexData[CHOOSE c \in DOMAIN indexData : indexData[c].category = name].link

\* C10: every learn-more link the caller builds from the bundle carries the
\* name of the category the link belongs to
C10_LinksAligned ==
    pc = "returned" =>
        LET shown == learnMoreLinks(contextResult.links, contextResult.categories)
        IN  \A i \in DOMAIN shown : shown[i].href = LinkOfCategory(shown[i].label)

\* the question of scenario 1
QuestionScenario1 == join(<<WhatIsA, NeuralNetworkQ>>)

\* the ids of the matched documents, in the order returned
MatchedIds == [i \in DOMAIN Matches |-> Matches[i].document.id]

\* C11: over the Knowledge Index of the scenarios, the question "What is a
\* neural network?" matches d1 alone, through the keyword "neural network"
\* alone; the bundle's categories are ["AI Concepts"] and its context is the
\* block "[AI Concepts - Neural Networks]" newline d1's content (being the
\* only block, the context starts with it)
C11_Scenario1 ==
    (pc = "returned" /\ userQuestion = QuestionScenario1) =>
        /\ MatchedIds = <<"d1">>
        /\ Matches[1].matchedKeywords = <<kwNeuralNetwork>>
        /\ Kept = {kwNeuralNetwork}
        /\ contextResult.categories = <<"AI Concepts">>
        /\ contextResult.context =
               "[AI Concepts - Neural Networks]\nNeural networks are..."
        /\ contextResult.documents = <<ScenarioIndex[1].documents[1]>>

\* the question of scenario 1 has been answered with a document
C11_Witness ==
    /\ pc = "returned"
    /\ indexData = ScenarioIndex
    /\ userQuestion = QuestionScenario1
    /\ Len(Matches) = 1
    /\ contextResult.context # Null

\* the question of scenario 2
QuestionScenario2 == join(<<TellMeAboutTokenization, AndTokens>>)

\* C12 as stated: the question "Tell me about tokenization and tokens"
\* yields a single match, for d2, whose matchedKeywords are "tokenization"
\* and "token"
C12_AsStated ==
    (pc = "returned" /\ userQuestion = QuestionScenario2) =>
        /\ MatchedIds = <<"d2">>
        /\ Range(Matches[1].matchedKeywords) = {kwTokenization, kwToken}

\* C12: the question "Tell me about tokenization and tokens" yields a single
\* match, for d2, whose matchedKeywords is "tokenization" alone: no n-gram of
\* the question is the keyword "token"
C12_Scenario2 ==
    (pc = "returned" /\ userQuestion = QuestionScenario2) =>
        /\ MatchedIds = <<"d2">>
        /\ Matches[1].matchedKeywords = <<kwTokenization>>
        /\ Kept = {kwTokenization}
        /\ kwToken \notin Triggered
        /\ kwToken \in DOMAIN keywordMap

\* the question of scenario 2 has been answered with d2
C12_Witness ==
    /\ pc = "returned"
    /\ indexData = ScenarioIndex
    /\ userQuestion = QuestionScenario2
    /\ MatchedIds = <<"d2">>

\* a question without a letter or a digit: empty, blank or punctuation
Degenerate(q) ==
    \A i \in DOMAIN q :
        q[i] \notin Range(LowerLetters) \cup Range(UpperLetters) \cup DigitChars

\* C13: a question that is empty, blank or punctuation only, and a question
\* none of whose n-grams is a keyword, gets zero matches and an empty kept
\* set, and the bundle is the fallback: over the Knowledge Index of the
\* scenarios its categories are ["AI Concepts"] and its documents [d1]
C13_DegenerateInput ==
    (pc = "returned" /\ (Degenerate(userQuestion) \/ Triggered = {})) =>
        /\ searchResult.matches = <<>>
        /\ searchResult.matchedKeywords = <<>>
        /\ contextResult.categories = <<"AI Concepts">>
        /\ contextResult.documents = <<ScenarioIndex[1].documents[1]>>
        /\ contextResult.context = "[AI Concepts]\nNeural networks are..."
        /\ searchStatus = "No specific context found"

\* a question of blanks and punctuation has been answered with the fallback
C13_Witness ==
    /\ pc = "returned"
    /\ Degenerate(userQuestion)
    /\ \E i \in DOMAIN userQuestion : userQuestion[i] = " "
    /\ \E i \in DOMAIN userQuestion : userQuestion[i] = "?"
    /\ contextResult.documents = <<ScenarioIndex[1].documents[1]>>

\* v is null, v is undefined, v is a Map without entries: told by the
\* printed value, whatever kind of value v is
IsNull(v) == ToString(v) = ToString(Null)
IsUndefined(v) == ToString(v) = ToString(Undefined)
IsEmptyMap(v) == ToString(v) = ToString(EmptyMap)

\* C14 as stated: with the Knowledge Index absent (the load failed, indexData
\* still null) or an empty list, the keyword map has been built empty and
\* every answer is the empty result
C14_AsStated ==
    /\ (pc = "failed" /\ IsNull(indexData)) => IsEmptyMap(keywordMap)
    /\ (Loaded /\ indexData = <<>>) => keywordMap = EmptyMap
    /\ (pc = "returned" /\ indexData = <<>>) => contextResult = EmptyResult

\* C14: with an empty category list the keyword map is built empty and every
\* answer is the empty result, without fallback; with the Knowledge Index
\* absent (the load failed) indexData is still null, the keyword map was
\* never built and no question has been answered
C14_MissingIndex ==
    /\ (Loaded /\ indexData = <<>>) => keywordMap = EmptyMap
    /\ (pc = "returned" /\ indexData = <<>>) =>
           /\ searchResult.matches = <<>>
           /\ searchResult.matchedKeywords = <<>>
           /\ contextResult = EmptyResult
    /\ pc = "failed" =>
           /\ IsNull(indexData)
           /\ IsUndefined(keywordMap)
           /\ userQuestion = None
           /\ contextResult = None

\* a question with words has been answered over an empty category list
C14_Witness ==
    /\ pc = "returned"
    /\ indexJson = <<>>
    /\ keywordMap = EmptyMap
    /\ Len(split(normalizeQuestion(userQuestion))) >= 2
    /\ contextResult.context = Null

\* the stop words the unigram filter is to know
SeventeenStopWords ==
    {<<"w", "h", "a", "t">>, <<"i", "s">>, <<"a", "r", "e">>,
     <<"t", "h", "e">>, <<"a">>, <<"a", "n">>, <<"h", "o", "w">>,
     <<"d", "o", "e", "s">>, <<"d", "o">>, <<"c", "a", "n">>,
     <<"a", "b", "o", "u", "t">>, <<"t", "e", "l", "l">>, <<"m", "e">>,
     <<"e", "x", "p", "l", "a", "i", "n">>,
     <<"d", "e", "s", "c", "r", "i", "b", "e">>,
     <<"s", "h", "o", "w">>, <<"g", "i", "v", "e">>}

\* every keyword performSearch handed back, in a bucket or in the kept set
ReturnedKeywords ==
    Kept \cup UNION {Range(Matches[i].matchedKeywords) : i \in DOMAIN Matches}

\* keyword k was matched: it is kept, or subset filtering dropped it for a
\* kept keyword that contains it
KeptOrCovered(k) == k \in Kept \/ \E p \in Kept : IsSubstring(k, p)

\* the phrase of the n words of ws from position i on
WordsAt(ws, i, n) == join(SubSeq(ws, i, i + n - 1))

\* C15: no keyword of one word that is a stop word or a single character is
\* ever returned; a single word of at least two characters that is no stop
\* word, and every pair and triple of consecutive words of the question,
\* stop words and one-letter words included, is matched when it is a keyword
C15_UnigramFilter ==
    pc = "returned" =>
        LET ws == split(normalizeQuestion(userQuestion))
        IN  /\ \A k \in ReturnedKeywords :
                   NumWords(k) = 1 => Len(k) >= 2 /\ k \notin SeventeenStopWords
            /\ Cardinality(SeventeenStopWords) = 17
            /\ \A i \in DOMAIN ws :
                   (/\ Len(ws[i]) >= 2
                    /\ ws[i] \notin SeventeenStopWords
                    /\ ws[i] \in DOMAIN keywordMap) => KeptOrCovered(ws[i])
            /\ \A n \in 2..3 : \A i \in 1..(Len(ws) - n + 1) :
                   WordsAt(ws, i, n) \in DOMAIN keywordMap =>
                       KeptOrCovered(WordsAt(ws, i, n))

\* the question "what is" over an index where "is", "what" and "what is" are
\* keywords: the pair is kept, the stop words are not
C15_Witness ==
    /\ pc = "returned"
    /\ split(normalizeQuestion(userQuestion)) = <<wWhat, wIs>>
    /\ {wWhat, wIs, wA, wX} \subseteq DOMAIN keywordMap
    /\ Kept = {join(<<wWhat, wIs>>)}

\* C16: answering questions leaves the Knowledge Index and the keyword map
\* as loadIndex left them: after any number of queries indexData is the
\* parsed index.json, documents and categories included, and keywordMap is
\* the map built from it
C16_NoMutation ==
    Loaded =>
        /\ indexData = indexJson
        /\ keywordMap = buildKeywordMap(indexJson)

\* a question has been answered with two documents, which the bundle hands
\* out as they stand in the Knowledge Index
C16_Witness ==
    /\ pc = "returned"
    /\ Len(Matches) >= 2
    /\ \A i \in DOMAIN Matches :
           \E c \in DOMAIN indexJson : \E d \in DOMAIN indexJson[c].documents :
               Matches[i].document = indexJson[c].documents[d]
    /\ keywordMap = buildKeywordMap(indexJson)

\* seq holds no value twice
NoDuplicates(seq) ==
    \A a \in DOMAIN seq : \A b \in DOMAIN seq : a # b => seq[a] # seq[b]

\* C18: in every match performSearch returns, matchedKeywords holds each
\* keyword at most once, also when the phrase occurs several times in the
\* question
C18_KeywordsOnce ==
    pc = "returned" =>
        \A i \in DOMAIN Matches : NoDuplicates(Matches[i].matchedKeywords)

\* the matches whose matchedKeywords hold keyword k
MatchesHolding(k) ==
    {i \in DOMAIN Matches : k \in Range(Matches[i].matchedKeywords)}

\* C19: no document id occurs in two matches, the bundle's documents hold no
\* document twice, and every kept keyword is among the matchedKeywords of
\* exactly one match
C19_NoAmbiguity ==
    pc = "returned" =>
        /\ NoDuplicates(MatchedIds)
        /\ NoDuplicates(contextResult.documents)
        /\ NoDuplicates([i \in DOMAIN contextResult.documents |->
                             contextResult.documents[i].id])
        /\ \A k \in Kept : Cardinality(MatchesHolding(k)) = 1

\* several documents matched, the first of them through two kept keywords
C19_Witness ==
    /\ pc = "returned"
    /\ Len(Matches) >= 2
    /\ Cardinality(Range(Matches[1].matchedKeywords)) >= 2
    /\ Len(contextResult.documents) = Len(Matches)

(***************************************************************************)
(* C17: the greeting short-circuit                                         *)
(***************************************************************************)
IsNone(v) == ToString(v) = ToString(None)

\* the messages of the user in the chat
UserMessages(chat) ==
    SelectSeq(chat, LAMBDA e : e.className = "message" /\ e.role = "user")

\* one of the greetings, in any case, followed by nothing but blanks,
\* exclamation marks and question marks
OnlyGreeting(text) ==
    \E n \in 0..Len(text) :
        /\ toLowerCase(SubSeq(text, 1, n)) \in greetings
        /\ \A i \in (n + 1)..Len(text) : text[i] \in WhitespaceChars \cup {"!", "?"}

\* the step is a sendMessage that accepted its message
MessageAccepted ==
    Len(UserMessages(chatMessages')) = Len(UserMessages(chatMessages)) + 1

\* the step answered with the fixed greeting, without retrieval and without
\* starting a response
ShortCircuited ==
    /\ chatMessages'[Len(chatMessages')] = assistantMessageElement("greeting")
    /\ IsNone(searchResult')
    /\ generation' = generation
    /\ typing' = typing

\* the step called searchContext and started a response
WentThroughRetrieval ==
    /\ ~IsNone(searchResult')
    /\ generation' # generation \/ typing' # typing

\* C17: an accepted message gets the fixed greeting, with no retrieval and no
\* response generation, exactly when it is the first message of the
\* conversation (none was sent since the page was loaded or since the last
\* confirmed restart) and is one of the greetings followed only by blanks,
\* "!" and "?"; every other accepted message goes through retrieval.
C17_GreetingShortCircuit ==
    [][MessageAccepted =>
          /\ ShortCircuited <=>
                  (UserMessages(chatMessages) = <<>> /\ OnlyGreeting(userQuestion'))
          /\ ~ShortCircuited => WentThroughRetrieval]_vars

(***************************************************************************)
(* C20: without WebGPU there is no generative AI                           *)
(***************************************************************************)
\* the replies in the chat that generateResponse produced
Responses(chat) ==
    SelectSeq(chat, LAMBDA e : /\ e.className = "message"
                               /\ e.role = "assistant"
                               /\ e.by # "greeting")

\* C20: once the engine failed to initialise, webGPUAvailable is false and
\* simpleMode is true in every state, whatever is clicked; the engine is never
\* called (no generation is running, isGenerating stays false, nothing is
\* recorded in the history) and every response in the chat was written by
\* generateSimpleResponse.
C20_NoGPUNoGenerativeAI ==
    (pc = "idle" /\ ~webGPUSupported) =>
        /\ ~webGPUAvailable
        /\ simpleMode
        /\ IsNull(engine)
        /\ generation = <<>>
        /\ ~isGenerating
        /\ conversationHistory = <<>>
        /\ \A i \in DOMAIN Responses(chatMessages) :
               Responses(chatMessages)[i].by = "simple"

\* without WebGPU two messages were sent, generateSimpleResponse answered
\* and its typing animation is over
C20_Witness ==
    /\ pc = "idle"
    /\ ~webGPUSupported
    /\ Len(Responses(chatMessages)) >= 1
    /\ Len(UserMessages(chatMessages)) >= 2
    /\ typing = <<>>

(***************************************************************************)
(* C21: the kept keywords are mutually non-redundant                       *)
(***************************************************************************)
\* C21: no kept keyword is a proper substring of another kept keyword,
\* whatever their numbers of words and their order in the question.
C21_NonRedundant ==
    pc = "returned" =>
        \A k1 \in Kept : \A k2 \in Kept :
            k1 # k2 => ~IsSubstring(k1, k2)

(***************************************************************************)
(* C22: a stopped response is never recorded                               *)
(***************************************************************************)
\* the step ends call i of generateResponse
Ends(i) == i \in DOMAIN generation /\ generation' = removeAt(generation, i)

\* C22: a step that ends a generateResponse call during which stopGeneration
\* was called appends nothing to conversationHistory.
C22_StoppedNeverRecorded ==
    [][(\E i \in DOMAIN generation : Ends(i) /\ generation[i].stopped)
           => Len(conversationHistory') <= Len(conversationHistory)]_vars

(***************************************************************************)
(* C28: a single generation at a time                                      *)
(***************************************************************************)
\* C28: at most one generateResponse call is in progress, and isGenerating
\* is true exactly while one is.
C28_SingleGeneration ==
    /\ Len(generation) <= 1
    /\ isGenerating <=> generation # <<>>

(***************************************************************************)
(* C23: the bounded prompt window                                          *)
(***************************************************************************)
\* the last n elements of a sequence, by counting from its end
LastN(seq, n) ==
    LET k == IF Len(seq) < n THEN Len(seq) ELSE n
    IN  [i \in 1..k |-> seq[Len(seq) - k + i]]

\* the text is the question alone, without a context in front of it
IsPlainQuestion(content) ==
    \E value \in ChatInputs : ToString(content) = ToString(trim(value))

\* the step sends a request to the engine
RequestSent == Len(generation') = Len(generation) + 1

\* C23: a request sent to the engine holds the system prompt first, then the
\* 6 most recent messages of conversationHistory (all of them if there are
\* fewer), then the user prompt of the current question, with its context
\* in front where there is one, last; and the user messages recorded in
\* conversationHistory are the questions as typed, without context.
C23_PromptWindow ==
    [][/\ RequestSent =>
              LET messages == generation'[Len(generation')].messages
                  n == Len(messages)
              IN  /\ n >= 2
                  /\ n <= 8
                  /\ messages[1] = [role |-> "system", content |-> systemPrompt]
                  /\ SubSeq(messages, 2, n - 1) = LastN(conversationHistory, 6)
                  /\ messages[n].role = "user"
                  /\ messages[n].content.Q = userQuestion'
                  /\ messages[n].content.context = contextResult'.context
       /\ \A i \in DOMAIN conversationHistory' :
              conversationHistory'[i].role = "user" =>
                  IsPlainQuestion(conversationHistory'[i].content)]_vars

\* a request is under way that was sent with more than 6 messages recorded
\* and holds the last 6, the question with a context in front of it
C23_Witness ==
    /\ Len(generation) = 1
    /\ Len(conversationHistory) > 6
    /\ Len(generation[1].messages) = 8
    /\ generation[1].messages[8].content.Q = generation[1].userMessage
    /\ conversationHistory[1].content # conversationHistory[3].content


\* what C24 calls a rejected form: a trimmed endpoint, key or deployment
\* that is empty, an endpoint that is not a URL, or one that is not HTTPS
RejectedForm(form) ==
    \/ trim(form.foundryEndpoint) = <<>>
    \/ trim(form.foundryKey) = <<>>
    \/ trim(form.foundryDeployment) = <<>>
    \/ ToString(urlProtocol(trim(form.foundryEndpoint))) = ToString("TypeError")
    \/ ToString(urlProtocol(trim(form.foundryEndpoint)))
           # ToString(<<"h", "t", "t", "p", "s", ":">>)

\* a step of saveConfig that shows: the form or the status has changed
SaveShows ==
    /\ pc = "idle"
    /\ pc' = "idle"
    /\ \/ foundry'.form # foundry.form
       \/ foundry'.configStatus # foundry.configStatus

ErrorStatuses ==
    {"Please fill in all fields", "Invalid endpoint URL",
     "Endpoint must use HTTPS"}

\* C24: in the Foundry app a saveConfig of a rejected form (an empty
\* endpoint, key or deployment, an invalid URL, a URL that is not HTTPS)
\* leaves config, isConfigured and the localStorage entry as they were and
\* shows an error status; and a message sent while isConfigured is false
\* calls neither searchContext nor the Foundry API
C24_RejectedConfig ==
    [][/\ (SaveShows /\ RejectedForm(foundry'.form)) =>
              /\ foundry'.config = foundry.config
              /\ foundry'.isConfigured = foundry.isConfigured
              /\ foundry'.localStorage = foundry.localStorage
              /\ foundry'.configStatus \in ErrorStatuses
       /\ (~foundry.isConfigured /\ chatMessages' # chatMessages
           /\ pc = "idle") =>
              /\ IsNone(searchResult')
              /\ generation' = generation
              /\ ~isGenerating']_vars

\* a configuration was saved, then a save of a form that is not HTTPS was
\* rejected and left it in place
C24_Witness ==
    /\ foundry.isConfigured
    /\ foundry.configStatus = "Endpoint must use HTTPS"
    /\ foundry.config.endpoint = <<"h", "t", "t", "p", "s", ":", "/", "/", "a", ".", "c", "o", "m">>
    /\ foundry.localStorage # <<>>
    /\ foundry.form.foundryEndpoint = <<"h", "t", "t", "p", ":", "/", "/", "a", ".", "c", "o", "m">>

\* k is the phrase of one, two or three consecutive words of the normalized
\* question
IsWindow(k, question) ==
    LET ws == split(normalizeQuestion(question))
    IN  \E n \in 1..3 : \E i \in 1..(Len(ws) - n + 1) : k = WordsAt(ws, i, n)

\* C25: every matched keyword of a returned match is a window of one to
\* three consecutive words of the normalized question, and the keyword index
\* gives that keyword to the match's document, under the match's category
\* and link
C25_Soundness ==
    pc = "returned" =>
        \A i \in DOMAIN Matches :
            \A k \in Range(Matches[i].matchedKeywords) :
                /\ IsWindow(k, userQuestion)
                /\ k \in DOMAIN keywordMap
                /\ keywordMap[k].document = Matches[i].document
                /\ keywordMap[k].category = Matches[i].category
                /\ keywordMap[k].link = Matches[i].link

\* a match returned for a window of two or three words inside a longer
\* question
C25_Witness ==
    /\ pc = "returned"
    /\ \E i \in DOMAIN Matches :
           \E k \in Range(Matches[i].matchedKeywords) :
               /\ NumWords(k) >= 2
               /\ NumWords(k) < Len(split(normalizeQuestion(userQuestion)))

\* k is made of words of the characters a-z and 0-9 with single spaces
\* between them
IsPlainPhrase(k) ==
    /\ k # <<>>
    /\ \A i \in DOMAIN k : k[i] \in Range(LowerLetters) \cup DigitChars \cup {" "}
    /\ k[1] # " "
    /\ k[Len(k)] # " "
    /\ \A i \in 1..(Len(k) - 1) : ~(k[i] = " " /\ k[i + 1] = " ")

\* a well-formed keyword: one to three such words, not a single stop word
\* and not a single character
IsWellFormed(k) ==
    /\ IsPlainPhrase(k)
    /\ NumWords(k) <= 3
    /\ NumWords(k) = 1 => (Len(k) >= 2 /\ k \notin SeventeenStopWords)

\* C26: when the question is a well-formed keyword of the keyword index (one
\* to three words of a-z and 0-9 with single spaces, not a single stop word
\* or a single character), the document that owns the keyword is returned,
\* with the keyword in the kept set and among the document's matched keywords
C26_Completeness ==
    (pc = "returned" /\ userQuestion \in DOMAIN keywordMap
        /\ IsWellFormed(userQuestion)) =>
            /\ userQuestion \in Kept
            /\ \E i \in DOMAIN Matches :
                   /\ Matches[i].document = keywordMap[userQuestion].document
                   /\ userQuestion \in Range(Matches[i].matchedKeywords)

\* the question is a keyword of three words that holds two shorter keywords
C26_Witness ==
    /\ pc = "returned"
    /\ userQuestion \in DOMAIN keywordMap
    /\ IsWellFormed(userQuestion)
    /\ NumWords(userQuestion) = 3
    /\ Cardinality(Triggered) >= 3

\* a keyword of the index that holds a character other than a-z, 0-9 and
\* single spaces between its words, or more than three words
IsUnreachable(k) ==
    /\ k # <<>>
    /\ ~IsPlainPhrase(k) \/ NumWords(k) > 3

\* C27: a keyword whose lowercased, trimmed form holds a character other
\* than a-z, 0-9 and single spaces between words, or has more than three
\* words, is a key of the keyword index, and no question has it among the
\* kept keywords or among the matched keywords of a match
C27_Unreachable ==
    /\ pc \in {"idle", "returned"} =>
           \A o \in Occurrences :
               IsUnreachable(trim(toLowerCase(RawKeyword(o)))) =>
                   trim(toLowerCase(RawKeyword(o))) \in DOMAIN keywordMap
    /\ pc = "returned" =>
           \A k \in DOMAIN keywordMap :
               IsUnreachable(k) =>
                   /\ k \notin Kept
                   /\ \A i \in DOMAIN Matches :
                          k \notin Range(Matches[i].matchedKeywords)

\* the question is an unreachable keyword of the index as it was authored,
\* and the documents of its words are what is returned
C27_Witness ==
    /\ pc = "returned"
    /\ trim(toLowerCase(userQuestion)) \in DOMAIN keywordMap
    /\ IsUnreachable(trim(toLowerCase(userQuestion)))
    /\ NumWords(trim(toLowerCase(userQuestion))) > 3
    /\ Matches # <<>>

\* C29: after a confirmed restartConversation the history only holds turns
\* sent after the restart: a generation that was under way when the
\* conversation was restarted adds nothing to conversationHistory when it
\* completes
C29_RestartIsolates ==
    [][(/\ generation # <<>>
        /\ ~generation[1].attached
        /\ Len(generation') < Len(generation)) =>
            conversationHistory' = conversationHistory]_vars

\* h is a sequence of pairs: a user message, then an assistant message
HistoryShape(h) ==
    /\ Len(h) % 2 = 0
    /\ \A i \in DOMAIN h :
           h[i].role = (IF i % 2 = 1 THEN "user" ELSE "assistant")

\* the step answered a message with the greeting or in simple mode
AnsweredWithoutEngine ==
    /\ MessageAccepted
    /\ chatMessages'[Len(chatMessages')].by \in {"greeting", "simple"}

\* the step is the end of a generateResponse call
GenerateResponseEnds == Len(generation') < Len(generation)

\* the step is the end of a generateResponse call whose engine threw
GenerateResponseFailed ==
    /\ GenerateResponseEnds
    /\ chatMessages' # chatMessages
    /\ chatMessages'[Len(chatMessages')] = assistantMessageElement("error")

\* C30: in the WebLLM app conversationHistory always has even length and
\* alternates user, assistant from its first element on; the greeting, a
\* simple-mode response and a generation that fails leave it unchanged; and
\* when a generateResponse call ends, however it ends, isGenerating and
\* stopRequested are both false
C30_HistoryShape ==
    /\ HistoryShape(conversationHistory)
    /\ [][/\ HistoryShape(conversationHistory')
          /\ AnsweredWithoutEngine => conversationHistory' = conversationHistory
          /\ typing' # typing => conversationHistory' = conversationHistory
          /\ GenerateResponseFailed => conversationHistory' = conversationHistory
          /\ GenerateResponseEnds => (~isGenerating' /\ ~stopRequested')]_vars

\* a turn was recorded by a generation that was stopped after its first
\* chunk, and the flags are down again
C30_Witness ==
    /\ Len(conversationHistory) = 2
    /\ conversationHistory[2].content # <<>>
    /\ generation = <<>>
    /\ ~isGenerating
    /\ ~stopRequested
    /\ Len(UserMessages(chatMessages)) = 1
====
